---- MODULE Spec2Model ----
(***************************************************************************)
(* A model of typhoon-action-guide-mcp: the TTL cache (src/utils.py), the  *)
(* data.go.kr client with its paginated reads (src/data_go_kr.py), the     *)
(* aggregation tools built on them and the JSON-RPC handler                *)
(* (src/server.py), and the cached get of src/kma_apihub.py.  The          *)
(* coroutines are tasks of one event loop: a step is the run of one task   *)
(* from its call, or from the answer of the upstream it awaits, to its     *)
(* next await of the upstream or to its end.                               *)
(*                                                                         *)
(* Python text is a sequence of one-character strings, so that strip(),    *)
(* int(), float() and strptime() are computed and not assumed.  A JSON     *)
(* value is a record [t, s, n]: t = "str" (text s), "int" (number n),      *)
(* "null", or "missing" (the key is not in the object).                    *)
(***************************************************************************)
EXTENDS Integers, Sequences, FiniteSets, TLC

VARIABLES
    store,      \* TTLCache._store: cache key -> CacheItem
    now,        \* time.time(), in whole seconds
    ttl_seconds,\* TTLCache.ttl_seconds
    lastSet,    \* history: per key, the latest set() call (value, time, ttl)
    ev,         \* history: the last cache or fetch call and what it returned
    op,         \* the running paginated read (its locals), or the idle record
    srch,       \* the running tool_search_past_typhoons call, or the idle record
    near,       \* the last _summarize_track_near_location call
    service_key,\* os.environ: the text of DATA_GO_KR_SERVICE_KEY ("" when unset)
    _data_client,\* server._data_client: None, or the client built
    SESSIONS,   \* server.SESSIONS: the session ids handed out
    call,       \* the running or last tool call (its locals), or the idle record
    rpc,        \* the JSON-RPC request being handled or the last one handled
    waiting,    \* the tasks that await the network, but for the one that ran last
    started     \* the number of tasks started

\* the state of the tools and of the JSON-RPC handler
tools == <<service_key, _data_client, SESSIONS, call, rpc>>

\* the tasks of the event loop
sched == <<waiting, started>>

vars == <<store, now, ttl_seconds, lastSet, ev, op, srch, near, tools, sched>>

(***************************************************************************)
(* Bounds of the model.                                                    *)
(***************************************************************************)
MaxTime == 4

\* the tasks that await the network at one time
MaxTasks == 2

(***************************************************************************)
(* Characters.  A character is a string: the character itself when it is   *)
(* a printable ASCII character other than the grave accent, or one of \t,  *)
(* \n, \f, \r, and otherwise "U+" with the four to six hexadecimal digits  *)
(* of its code point ("U+C11C").  Ord gives the code point of a character  *)
(* and Chr the character of a code point, as ord() and chr() do.           *)
(***************************************************************************)
\* the characters 32 to 95 and 97 to 126
UpTo95 == " !\"#$%&'()*+,-./0123456789:;<=>?@ABCDEFGHIJKLMNOPQRSTUVWXYZ[\\]^_"

From97 == "abcdefghijklmnopqrstuvwxyz{|}~"

HexChars == "0123456789ABCDEF"

Places(text, first) ==
    [c \in {SubSeq(text, i, i) : i \in 1..Len(text)} |->
        first - 1 + (CHOOSE i \in 1..Len(text) : SubSeq(text, i, i) = c)]

AsciiCode ==
    Places(UpTo95, 32) @@ Places(From97, 97)
        @@ ("\t" :> 9) @@ ("\n" :> 10) @@ ("\f" :> 12) @@ ("\r" :> 13)

HexVal == Places(HexChars, 0)

RECURSIVE HexOf(_)
HexOf(h) ==
    IF h = "" THEN 0
    ELSE 16 * HexOf(SubSeq(h, 1, Len(h) - 1)) + HexVal[SubSeq(h, Len(h), Len(h))]

Ord(c) == IF Len(c) = 1 THEN AsciiCode[c] ELSE HexOf(SubSeq(c, 3, Len(c)))

RECURSIVE ToHex(_, _)
ToHex(n, width) ==
    IF n = 0 /\ width <= 0 THEN ""
    ELSE ToHex(n \div 16, width - 1) \o SubSeq(HexChars, (n % 16) + 1, (n % 16) + 1)

Chr(n) ==
    CASE n >= 32 /\ n <= 95 -> SubSeq(UpTo95, n - 31, n - 31)
      [] n >= 97 /\ n <= 126 -> SubSeq(From97, n - 96, n - 96)
      [] n = 9 -> "\t"
      [] n = 10 -> "\n"
      [] n = 12 -> "\f"
      [] n = 13 -> "\r"
      [] OTHER -> "U+" \o ToHex(n, 4)

\* the code points str.isspace() holds of: what strip() takes off the ends
\* of a text
Whitespace ==
    {9, 10, 11, 12, 13, 28, 29, 30, 31, 32, 133, 160, 5760, 8192, 8193, 8194,
     8195, 8196, 8197, 8198, 8199, 8200, 8201, 8202, 8232, 8233, 8239, 8287,
     12288}

IsSpace(c) == Ord(c) \in Whitespace

\* the code points of the digit zero of each script: the ten decimal digits
\* of a script follow each other from its zero
DecimalZeros ==
    {48, 1632, 1776, 1984, 2406, 2534, 2662, 2790, 2918, 3046, 3174, 3302,
     3430, 3558, 3664, 3792, 3872, 4160, 4240, 6112, 6160, 6470, 6608, 6784,
     6800, 6992, 7088, 7232, 7248, 42528, 43216, 43264, 43472, 43504, 43600,
     44016, 65296, 66720, 68912, 69734, 69872, 69942, 70096, 70384, 70736,
     70864, 71248, 71360, 71472, 71904, 72016, 72784, 73040, 73120, 92768,
     92864, 93008, 120782, 120792, 120802, 120812, 120822, 123200, 123632,
     125264, 130032}

(***************************************************************************)
(* Text.                                                                   *)
(***************************************************************************)
DigitChars == <<"0", "1", "2", "3", "4", "5", "6", "7", "8", "9">>

\* the zero of the script of a decimal digit
ZeroOf(n) == {z \in DecimalZeros : z <= n /\ n <= z + 9}

\* a decimal digit of any script: what int(), float() and the \d of a
\* regular expression take for a digit
IsDigit(c) == ZeroOf(Ord(c)) # {}

DigitIndex(n) == n - (CHOOSE z \in ZeroOf(n) : TRUE)

DigitVal(c) == DigitIndex(Ord(c))

AllDigits(s) == \A i \in 1..Len(s) : IsDigit(s[i])

RECURSIVE DigitsVal(_)
DigitsVal(s) ==
    IF s = <<>> THEN 0
    ELSE 10 * DigitsVal(SubSeq(s, 1, Len(s) - 1)) + DigitVal(s[Len(s)])

\* the text without the characters of the code points ws at its ends
RECURSIVE LStripOf(_, _)
LStripOf(s, ws) ==
    IF s # <<>> /\ Ord(Head(s)) \in ws THEN LStripOf(Tail(s), ws) ELSE s

RECURSIVE RStripOf(_, _)
RStripOf(s, ws) ==
    IF s # <<>> /\ Ord(s[Len(s)]) \in ws THEN RStripOf(SubSeq(s, 1, Len(s) - 1), ws)
    ELSE s

StripOf(s, ws) == RStripOf(LStripOf(s, ws), ws)

\* str.strip()
Strip(s) == StripOf(s, Whitespace)

\* what int() and float() take off the ends of a text: the whitespace of
\* C's isspace and the whitespace beyond ASCII, so not U+001C to U+001F
NumberSpace == Whitespace \ {28, 29, 30, 31}

Least(S) == CHOOSE a \in S : \A b \in S : a <= b

RECURSIVE NatToStr(_)
NatToStr(n) ==
    IF n < 10 THEN <<DigitChars[n + 1]>>
    ELSE NatToStr(n \div 10) \o <<DigitChars[(n % 10) + 1]>>

IntToStr(n) == IF n < 0 THEN <<"-">> \o NatToStr(0 - n) ELSE NatToStr(n)

\* the zero-padded decimal of strftime's %Y, %m, %d, %H, %M
RECURSIVE Pad(_, _)
Pad(s, width) == IF Len(s) >= width THEN s ELSE Pad(<<"0">> \o s, width)

(***************************************************************************)
(* JSON values.                                                            *)
(***************************************************************************)
JStr(s) == [t |-> "str", s |-> s, n |-> 0]
JInt(n) == [t |-> "int", s |-> <<>>, n |-> n]
JNull == [t |-> "null", s |-> <<>>, n |-> 0]
JMissing == [t |-> "missing", s |-> <<>>, n |-> 0]

\* dict.get(key, default)
Get(it, key, default) == IF it[key].t = "missing" THEN default ELSE it[key]

\* str(x)
PyStr(x) ==
    CASE x.t = "str" -> x.s
      [] x.t = "int" -> IntToStr(x.n)
      [] OTHER -> <<"N", "o", "n", "e">>

NotANumber == [ok |-> FALSE, n |-> 0]

\* digits in which single underscores may stand, each between two digits
Grouped(d) ==
    /\ d # <<>>
    /\ \A i \in 1..Len(d) :
          \/ IsDigit(d[i])
          \/ /\ d[i] = "_"
             /\ i > 1 /\ i < Len(d)
             /\ IsDigit(d[i - 1]) /\ IsDigit(d[i + 1])

Ungrouped(d) == SelectSeq(d, LAMBDA c : c # "_")

SignedInt(sign, d) ==
    IF Grouped(d)
    THEN [ok |-> TRUE, n |-> IF sign = "-" THEN 0 - DigitsVal(Ungrouped(d))
                             ELSE DigitsVal(Ungrouped(d))]
    ELSE NotANumber

IntOfText(u) ==
    IF u # <<>> /\ Head(u) \in {"+", "-"} THEN SignedInt(Head(u), Tail(u))
    ELSE SignedInt("+", u)

\* int(x): [ok, n]; text is stripped of NumberSpace, may carry one sign, and is decimal
\* digits of any script with single underscores between them
PyInt(x) ==
    IF x.t = "int" THEN [ok |-> TRUE, n |-> x.n]
    ELSE IF x.t # "str" THEN NotANumber
    ELSE IntOfText(StripOf(x.s, NumberSpace))

OrDefault(r, default) == IF r.ok THEN r.n ELSE default

_safe_int(x, default) == OrDefault(PyInt(x), default)

(***************************************************************************)
(* datetime.strptime(text, "%Y%m%d%H%M").  The format compiles to the      *)
(* regular expression                                                      *)
(*   (\d\d\d\d)(1[0-2]|0[1-9]|[1-9])(3[0-1]|[1-2]\d|0[1-9]|[1-9]| [1-9])    *)
(*   (2[0-3]|[0-1]\d|\d)([0-5]\d|\d)                                       *)
(* matched at the start of the text: the match is the first one in the     *)
(* order of the alternatives, the text must end where it ends, and the     *)
(* fields must make a date.  A datetime is <<year, month, day, hour,       *)
(* minute>>; NoDt is Python's None.                                        *)
(***************************************************************************)
NoDt == <<>>

\* datetime.min
DtMin == <<1, 1, 1, 0, 0>>

Ch(s, i) == IF i >= 1 /\ i <= Len(s) THEN s[i] ELSE ""

\* \d: a decimal digit of any script
D09(c) == IsDigit(c)
\* [1-9]: the ASCII digits alone
D19(c) == c \in {"1", "2", "3", "4", "5", "6", "7", "8", "9"}

\* the alternatives of each field, in order: the length each one takes at
\* position i of s, or 0 when it does not match there
AltsMonth(s, i) ==
    << IF Ch(s, i) = "1" /\ Ch(s, i + 1) \in {"0", "1", "2"} THEN 2 ELSE 0,
       IF Ch(s, i) = "0" /\ D19(Ch(s, i + 1)) THEN 2 ELSE 0,
       IF D19(Ch(s, i)) THEN 1 ELSE 0 >>

AltsDay(s, i) ==
    << IF Ch(s, i) = "3" /\ Ch(s, i + 1) \in {"0", "1"} THEN 2 ELSE 0,
       IF Ch(s, i) \in {"1", "2"} /\ D09(Ch(s, i + 1)) THEN 2 ELSE 0,
       IF Ch(s, i) = "0" /\ D19(Ch(s, i + 1)) THEN 2 ELSE 0,
       IF D19(Ch(s, i)) THEN 1 ELSE 0,
       IF Ch(s, i) = " " /\ D19(Ch(s, i + 1)) THEN 2 ELSE 0 >>

AltsHour(s, i) ==
    << IF Ch(s, i) = "2" /\ Ch(s, i + 1) \in {"0", "1", "2", "3"} THEN 2 ELSE 0,
       IF Ch(s, i) \in {"0", "1"} /\ D09(Ch(s, i + 1)) THEN 2 ELSE 0,
       IF D09(Ch(s, i)) THEN 1 ELSE 0 >>

AltsMinute(s, i) ==
    << IF Ch(s, i) \in {"0", "1", "2", "3", "4", "5"} /\ D09(Ch(s, i + 1))
       THEN 2 ELSE 0,
       IF D09(Ch(s, i)) THEN 1 ELSE 0 >>

\* whether the fields from one on can match, the field starting at i
CanMinute(s, i) == \E a \in 1..2 : AltsMinute(s, i)[a] > 0

CanHour(s, i) ==
    LET alts == AltsHour(s, i)
    IN  \E a \in 1..3 : alts[a] > 0 /\ CanMinute(s, i + alts[a])

CanDay(s, i) ==
    LET alts == AltsDay(s, i)
    IN  \E a \in 1..5 : alts[a] > 0 /\ CanHour(s, i + alts[a])

CanMonth(s, i) ==
    LET alts == AltsMonth(s, i)
    IN  \E a \in 1..3 : alts[a] > 0 /\ CanDay(s, i + alts[a])

\* the length the field takes in the match found: that of its first
\* alternative after which the fields that follow can match
LenMonth(s, i) ==
    LET alts == AltsMonth(s, i)
    IN  alts[Least({a \in 1..3 : alts[a] > 0 /\ CanDay(s, i + alts[a])})]

LenDay(s, i) ==
    LET alts == AltsDay(s, i)
    IN  alts[Least({a \in 1..5 : alts[a] > 0 /\ CanHour(s, i + alts[a])})]

LenHour(s, i) ==
    LET alts == AltsHour(s, i)
    IN  alts[Least({a \in 1..3 : alts[a] > 0 /\ CanMinute(s, i + alts[a])})]

LenMinute(s, i) ==
    LET alts == AltsMinute(s, i)
    IN  alts[Least({a \in 1..2 : alts[a] > 0})]

\* the digits of a field; the day's last alternative starts with a space
FieldVal(s) == DigitsVal(LStripOf(s, NumberSpace))

LeapYear(y) == (y % 4 = 0) /\ ((y % 100 # 0) \/ (y % 400 = 0))

DaysInMonth(y, m) ==
    IF m = 2 THEN (IF LeapYear(y) THEN 29 ELSE 28)
    ELSE IF m \in {4, 6, 9, 11} THEN 30 ELSE 31

\* datetime(year, month, day, hour, minute), None where it raises
MakeDt(year, month, day, hour, minute) ==
    IF year < 1 \/ day > DaysInMonth(year, month) THEN NoDt
    ELSE <<year, month, day, hour, minute>>

\* the fields cut at the lengths found: m, d, h, n are the positions where
\* the month, day, hour and minute end
StrptimeCut(s, m, d, h, n) ==
    IF n # Len(s) THEN NoDt
    ELSE MakeDt(DigitsVal(SubSeq(s, 1, 4)), FieldVal(SubSeq(s, 5, m)),
                FieldVal(SubSeq(s, m + 1, d)), FieldVal(SubSeq(s, d + 1, h)),
                FieldVal(SubSeq(s, h + 1, n)))

StrptimeHour(s, m, d, h) == StrptimeCut(s, m, d, h, h + LenMinute(s, h + 1))

StrptimeDay(s, m, d) == StrptimeHour(s, m, d, d + LenHour(s, d + 1))

StrptimeMonth(s, m) == StrptimeDay(s, m, m + LenDay(s, m + 1))

Strptime(s) ==
    IF ~(Len(s) >= 4 /\ AllDigits(SubSeq(s, 1, 4)) /\ CanMonth(s, 5))
    THEN NoDt
    ELSE StrptimeMonth(s, 4 + LenMonth(s, 5))

_parse_dt_14(dt_str) == Strptime(dt_str)

\* a < b on two datetimes
DtLess(a, b) ==
    \E k \in 1..5 : a[k] < b[k] /\ \A j \in 1..(k - 1) : a[j] = b[j]

\* the %Y%m%d%H%M text a bulletin carries for a time
Stamp(dt) ==
    Pad(NatToStr(dt[1]), 4) \o Pad(NatToStr(dt[2]), 2) \o Pad(NatToStr(dt[3]), 2)
        \o Pad(NatToStr(dt[4]), 2) \o Pad(NatToStr(dt[5]), 2)

(***************************************************************************)
(* float(x).  A float is [nan, inf, nz, m, e]: not-a-number; an infinity   *)
(* (inf = 1 or -1); or the double that repr() writes as the decimal        *)
(* m / 10^e, with no trailing zero in its e places, nz telling the         *)
(* negative zero from zero.  The model's integers have 32 bits, so a text  *)
(* is read when its digits and the digits of the double it gives are of    *)
(* that size.  float() gives the double nearest to the decimal: a decimal  *)
(* of ten digits or less that is a multiple of 10^-323 is the only such    *)
(* decimal that near to its double, which repr() therefore writes as that  *)
(* decimal; a decimal over the largest double gives an infinity; and a     *)
(* decimal with places beyond 10^-323 lies among the doubles below         *)
(* 2^-1022, which are the multiples of 2^-1074, and gives the nearest of   *)
(* them, zero too, written by repr() as the shortest decimal that float()  *)
(* reads as that double and, of the shortest ones, the nearest to it.      *)
(***************************************************************************)
FNaN == [nan |-> TRUE, inf |-> 0, nz |-> FALSE, m |-> 0, e |-> 0]

FInf(sign) == [nan |-> FALSE, inf |-> sign, nz |-> FALSE, m |-> 0, e |-> 0]

RECURSIVE FNorm(_, _)
FNorm(m, e) ==
    IF e > 0 /\ m % 10 = 0 THEN FNorm(m \div 10, e - 1)
    ELSE [nan |-> FALSE, inf |-> 0, nz |-> FALSE, m |-> m, e |-> e]

FNum(n) == FNorm(n, 0)

RECURSIVE Pow10(_)
Pow10(e) == IF e = 0 THEN 1 ELSE 10 * Pow10(e - 1)

NotAFloat == [ok |-> FALSE, v |-> FNaN]

\* the ASCII letters in lower case, as float() compares "inf" and "nan"
AsciiLower(s) ==
    [i \in 1..Len(s) |->
        IF Len(s[i]) = 1 /\ Ord(s[i]) >= 65 /\ Ord(s[i]) <= 90
        THEN Chr(Ord(s[i]) + 32) ELSE s[i]]

\* the places of the characters of cs in s
PlacesOf(s, cs) == {i \in 1..Len(s) : s[i] \in cs}

\* a natural number in base 10^4, the least limb first
Limb == 10000

Limbs(n) == <<n % Limb, (n \div Limb) % Limb, n \div (Limb * Limb)>>

\* the sum, limb by limb, of two numbers of three limbs
LimbsSum(a, b) == <<a[1] + b[1], a[2] + b[2], a[3] + b[3]>>

\* the same number, each limb giving what it holds over 10^4 to the next
Spill(n) ==
    [i \in 1..(Len(n) + 1) |->
        (IF i <= Len(n) THEN n[i] % Limb ELSE 0)
        + (IF i > 1 THEN n[i - 1] \div Limb ELSE 0)]

\* limbs of 10^4 at most take a carry of one, which a limb of 10^4 gives
\* and the limbs of 10^4 - 1 pass on
CarryInto(n, i) ==
    \E j \in 1..(i - 1) :
        n[j] >= Limb /\ \A l \in (j + 1)..(i - 1) : n[l] = Limb - 1

\* the limbs, all under 10^4, of a number whose limbs are 10^4 at most
Carried(n) ==
    [i \in 1..(Len(n) + 1) |->
        ((IF i <= Len(n) THEN n[i] ELSE 0) + (IF CarryInto(n, i) THEN 1 ELSE 0)) % Limb]

\* the doubles under 2^-1022 are the multiples of 2^-1074: how many of them
\* make one, 2^1074
PerUnit ==
    << 4784, 9349, 7410, 7707, 6330, 62, 8646, 2750, 1863,
       2532, 3050, 6152, 3414, 5233, 7695, 2358, 5651, 8100,
       6340, 5955, 6491, 3355, 1810, 6986, 4692, 8342, 74,
       8562, 4506, 4727, 7678, 3976, 3412, 3216, 4209, 9077,
       4466, 6136, 5663, 4276, 1742, 9215, 8509, 4073, 3999,
       7013, 7686, 7934, 7385, 873, 3898, 1911, 1681, 8643,
       7077, 9518, 1244, 1437, 8370, 9603, 6891, 9534, 5679,
       339, 2743, 3580, 6901, 1835, 1421, 9764, 5664, 495,
       7307, 1891, 3467, 2495, 1835, 3106, 3307, 225, 2024 >>

\* c * 2^1074, c of three limbs of 2 * 10^4 or so at most: a limb of the
\* product of the limbs is under 7 * 10^8, and spilt over three times it is
\* 10^4 at most
ProductOfLimbs(c) ==
    [i \in 1..(Len(PerUnit) + 2) |->
        (IF i <= Len(PerUnit) THEN c[1] * PerUnit[i] ELSE 0)
        + (IF i >= 2 /\ i - 1 <= Len(PerUnit) THEN c[2] * PerUnit[i - 1] ELSE 0)
        + (IF i >= 3 THEN c[3] * PerUnit[i - 2] ELSE 0)]

Multiples(c) == Carried(Spill(Spill(Spill(ProductOfLimbs(c)))))

\* the decimal digit of n at 10^i
DigitAt(n, i) ==
    IF i \div 4 + 1 > Len(n) THEN 0 ELSE (n[i \div 4 + 1] \div Pow10(i % 4)) % 10

\* what no count of multiples read below reaches
ManyMultiples == 1000000000

\* n / 10^p without its fraction, ManyMultiples when it is that or more
Whole(n, p) ==
    IF \E i \in (p + 9)..(4 * Len(n)) : DigitAt(n, i) # 0 THEN ManyMultiples
    ELSE DigitAt(n, p) + 10 * DigitAt(n, p + 1) + 100 * DigitAt(n, p + 2)
         + 1000 * DigitAt(n, p + 3) + 10000 * DigitAt(n, p + 4)
         + 100000 * DigitAt(n, p + 5) + 1000000 * DigitAt(n, p + 6)
         + 10000000 * DigitAt(n, p + 7) + 100000000 * DigitAt(n, p + 8)

\* n / 10^p to the nearest whole number, for n / 10^p not half way between two
Rounded(n, p) == Whole(n, p) + (IF DigitAt(n, p - 1) >= 5 THEN 1 ELSE 0)

\* the multiple of 2^-1074 nearest to c / 10^p, c of three limbs: c / 10^p
\* is never half way between two of them
NearestMultiple(c, p) == Rounded(Multiples(c), p)

\* the limbs of c + d, which may be over the model's integers
Beside(c, d) == IF d <= 0 THEN Limbs(c + d) ELSE [Limbs(c) EXCEPT ![1] = @ + d]

\* (c + a) / 10^p is nearer to k * 2^-1074 than (c + b) / 10^p is: what lies
\* half way between them is on the other side of it
Nearer(c, a, b, p, k) ==
    IF a < b THEN Whole(Multiples(LimbsSum(Beside(c, a), Beside(c, b))), p) >= 2 * k
    ELSE Whole(Multiples(LimbsSum(Beside(c, a), Beside(c, b))), p) < 2 * k

\* the decimals (c + d) / 10^p within ten of c / 10^p that float() reads as
\* k * 2^-1074, by d.  The decimals of p places read as one double stand in
\* a row; a decimal read so that lies between c / 10^p and (c + 1) / 10^p
\* puts one of these two in the row; and where no decimal of fewer places is
\* read so, the row holds no multiple of ten, so nine decimals at most
ReadAs(c, p, k) ==
    {d \in (0 - 9)..10 : d > 0 - c /\ NearestMultiple(Beside(c, d), p) = k}

\* of the decimals read as k * 2^-1074, the nearest to it
NearestOf(c, read, p, k) ==
    c + (CHOOSE a \in read : \A b \in read \ {a} : Nearer(c, a, b, p, k))

NearestAt(c, p, k) == FNorm(NearestOf(c, ReadAs(c, p, k), p, k), p)

\* m / 10^e cut to p places
Cut(m, e, p) == m \div Pow10(e - p)

\* repr() of k * 2^-1074, the double float() gave for m / 10^e: of the
\* decimals of the fewest places read as that double, the nearest to it
Shortest(m, e, p, k) == NearestAt(Cut(m, e, p), p, k)

ReprOf(m, e, k) ==
    Shortest(m, e, Least({p \in (e - 9)..e : ReadAs(Cut(m, e, p), p, k) # {}}), k)

ReprOfMultiple(m, e, k) == IF k = 0 THEN FNum(0) ELSE ReprOf(m, e, k)

\* the double nearest to m / 10^e, for m > 0 with e places, the last not zero
Subnormal(m, e) ==
    IF e >= 334 THEN FNum(0) ELSE ReprOfMultiple(m, e, NearestMultiple(Limbs(m), e))

\* the largest double is 1.7976931348623157 * 10^308: m * 10^x is over it
\* when its first ten digits are over 1797693134
Overflows(m, x) ==
    \/ x >= 309
    \/ Len(NatToStr(m)) + x > 309
    \/ /\ Len(NatToStr(m)) + x = 309
       /\ \/ m \div Pow10(Len(NatToStr(m)) - 1) >= 2
          \/ m * Pow10(10 - Len(NatToStr(m))) > 1797693134

Nearest(d) == IF d.e <= 323 THEN d ELSE Subnormal(d.m, d.e)

\* -x, for a zero, an infinity or a number x
Negated(x) ==
    IF x.inf # 0 THEN FInf(0 - x.inf) ELSE [x EXCEPT !.m = 0 - x.m, !.nz = (x.m = 0)]

\* the decimal digits m with e places after the point, times 10^x
Magnitude(m, e, x) ==
    IF m = 0 \/ x <= 0 - 334 THEN FNum(0)
    ELSE IF x >= e
    THEN (IF Overflows(m, x - e) THEN FInf(1) ELSE FNum(m * Pow10(x - e)))
    ELSE Nearest(FNorm(m, e - x))

Scientific(neg, m, e, x) ==
    IF neg THEN Negated(Magnitude(m, e, x)) ELSE Magnitude(m, e, x)

\* digits, a point, digits, with one digit at least, and the exponent
Decimal(neg, whole, frac, x) ==
    IF whole \o frac # <<>> /\ AllDigits(whole \o frac) /\ x.ok
    THEN [ok |-> TRUE, v |-> Scientific(neg, DigitsVal(whole \o frac), Len(frac), x.n)]
    ELSE NotAFloat

Mantissa(neg, d, x) ==
    IF Cardinality(PlacesOf(d, {"."})) > 1 THEN NotAFloat
    ELSE IF PlacesOf(d, {"."}) = {} THEN Decimal(neg, d, <<>>, x)
    ELSE Decimal(neg, SubSeq(d, 1, Least(PlacesOf(d, {"."})) - 1),
                 SubSeq(d, Least(PlacesOf(d, {"."})) + 1, Len(d)), x)

\* the exponent after e or E: a sign and digits
Exponent(d) ==
    IF d # <<>> /\ Head(d) \in {"+", "-"}
    THEN (IF AllDigits(Tail(d)) THEN SignedInt(Head(d), Tail(d)) ELSE NotANumber)
    ELSE (IF AllDigits(d) THEN SignedInt("+", d) ELSE NotANumber)

\* a number with its underscores taken out
Number(neg, d) ==
    IF PlacesOf(d, {"e", "E"}) = {} THEN Mantissa(neg, d, [ok |-> TRUE, n |-> 0])
    ELSE Mantissa(neg, SubSeq(d, 1, Least(PlacesOf(d, {"e", "E"})) - 1),
                  Exponent(SubSeq(d, Least(PlacesOf(d, {"e", "E"})) + 1, Len(d))))

\* every underscore stands between two digits
UnderscoresBetweenDigits(d) ==
    \A i \in 1..Len(d) :
        d[i] = "_" => /\ i > 1 /\ i < Len(d)
                      /\ IsDigit(d[i - 1]) /\ IsDigit(d[i + 1])

SignedFloat(neg, d) ==
    IF AsciiLower(d) = <<"n", "a", "n">> THEN [ok |-> TRUE, v |-> FNaN]
    ELSE IF AsciiLower(d) \in {<<"i", "n", "f">>,
                               <<"i", "n", "f", "i", "n", "i", "t", "y">>}
    THEN [ok |-> TRUE, v |-> FInf(IF neg THEN 0 - 1 ELSE 1)]
    ELSE IF ~UnderscoresBetweenDigits(d) THEN NotAFloat
    ELSE Number(neg, Ungrouped(d))

FloatOfText(u) ==
    IF u # <<>> /\ Head(u) \in {"+", "-"} THEN SignedFloat(Head(u) = "-", Tail(u))
    ELSE SignedFloat(FALSE, u)

PyFloat(x) ==
    IF x.t = "int" THEN [ok |-> TRUE, v |-> FNum(x.n)]
    ELSE IF x.t # "str" THEN NotAFloat
    ELSE FloatOfText(StripOf(x.s, NumberSpace))

(***************************************************************************)
(* The TTL cache.  A payload is what resp.json() gave: shape "null" is the *)
(* JSON null, which Python reads as None, the value get() also returns for *)
(* an absent key.                                                          *)
(***************************************************************************)
PNull == [shape |-> "null", item |-> <<>>, totalCount |-> JMissing]

None == PNull

CacheItem(value, expires_at) == [value |-> value, expires_at |-> expires_at]

EmptyStore == [k \in {} |-> CacheItem(None, 0)]

Pop(st, key) == [k \in (DOMAIN st) \ {key} |-> st[k]]

\* TTLCache.get with the expiry test off by one: an entry already counts as
\* expired at the second it expires
TTLCache_get_expires_early(st, key, t) ==
    IF key \notin DOMAIN st THEN [value |-> None, store |-> st]
    ELSE IF st[key].expires_at <= t THEN [value |-> None, store |-> Pop(st, key)]
    ELSE [value |-> st[key].value, store |-> st]

\* TTLCache.get at time t: the value returned and the store it leaves
TTLCache_get(st, key, t) ==
    IF key \notin DOMAIN st THEN [value |-> None, store |-> st]
    ELSE IF st[key].expires_at < t THEN [value |-> None, store |-> Pop(st, key)]
    ELSE [value |-> st[key].value, store |-> st]

\* the ttl_seconds argument of set(): None, or a number of seconds
TtlNone == [none |-> TRUE, n |-> 0]
TtlOf(n) == [none |-> FALSE, n |-> n]

\* TTLCache.set at time t, on a cache constructed with ttl_seconds = dflt
TTLCache_set(st, key, value, ttl_arg, dflt, t) ==
    LET ttl == IF ttl_arg.none THEN dflt ELSE ttl_arg.n
    IN  [k \in (DOMAIN st) \cup {key} |->
            IF k = key THEN CacheItem(value, t + ttl) ELSE st[k]]

\* clear(): self._store.clear()
TTLCache_clear(st) == EmptyStore

(***************************************************************************)
(* Dates and cache keys.  A date is <<year, month, day>>.                  *)
(***************************************************************************)
\* date.strftime("%Y%m%d"); %Y is the year with no padding
_yyyymmdd(d) ==
    NatToStr(d[1]) \o Pad(NatToStr(d[2]), 2) \o Pad(NatToStr(d[3]), 2)

\* f"getTyphoonInfo:{from}:{to}:{page_no}:{num_of_rows}", kept as its fields:
\* the dates are eight digits and the numbers hold no colon, so two keys
\* are the same text exactly when their fields agree
cache_key(from_s, to_s, page_no, num_of_rows) ==
    <<"getTyphoonInfo", from_s, to_s, page_no, num_of_rows>>

\* f"apihub:{url}:{sorted(params.items())}" of KmaApiHubClient.get_json,
\* kept as its fields: the url and the text of the sorted parameters
apihub_key(url, params) == <<"apihub", url, params>>

(***************************************************************************)
(* The upstream and one page of it.  An upstream answer u is [err,         *)
(* payload]: err is "" for a 2xx answer with a JSON body, else the name of *)
(* what client.get / raise_for_status raised.  The caller awaits the       *)
(* answer: the clock and the other tasks go on between cache.get and the   *)
(* answer.  A payload is [shape, item, totalCount]: shape "list"           *)
(* has response.body.items.item a list, "bare" a single object (item[1]),  *)
(* "noitems" has no items object, "null" is the JSON null.                 *)
(***************************************************************************)
Payload(shape, item, totalCount) ==
    [shape |-> shape, item |-> item, totalCount |-> totalCount]

Answer(payload) == [err |-> "", payload |-> payload]

Failure(err) == [err |-> err, payload |-> PNull]

\* if cached is not None
Hit(cached) == cached.value # None

\* fetch_typhoon_info and get_json when the cache serves the call: whether
\* it raised, the value returned, the store left, whether the network was
\* called
FromCache(cached) ==
    [raised |-> FALSE, value |-> cached.value, store |-> cached.store,
     called |-> FALSE]

\* the rest of fetch_typhoon_info with the upstream's failure swallowed: it
\* returns None where the call raised
AfterClientGet_swallows(st, key, t, dflt, u) ==
    IF u.err # ""
    THEN [raised |-> FALSE, value |-> None, store |-> st, called |-> TRUE]
    ELSE [raised |-> FALSE, value |-> u.payload,
          store |-> TTLCache_set(st, key, u.payload, TtlNone, dflt, t),
          called |-> TRUE]

\* fetch_typhoon_info and get_json from the answer u of the awaited
\* client.get on, at time t with the store st: raise_for_status, r.json(),
\* cache.set, return
AfterClientGet(st, key, t, dflt, u) ==
    IF u.err # ""
    THEN [raised |-> TRUE, value |-> None, store |-> st, called |-> TRUE]
    ELSE [raised |-> FALSE, value |-> u.payload,
          store |-> TTLCache_set(st, key, u.payload, TtlNone, dflt, t),
          called |-> TRUE]

\* _as_items: a bare item becomes a one-element list; anything that is not
\* an object with items gives no items
_as_items(payload) ==
    CASE payload.shape = "bare" -> <<payload.item[1]>>
      [] payload.shape = "list" -> payload.item
      [] OTHER -> <<>>

_total_count(payload) ==
    IF payload.shape = "null" THEN 0
    ELSE _safe_int(Get(payload, "totalCount", JInt(0)), 0)

\* the test with > for >=: a page that ends exactly at the total does not stop
PageIsLast_strict(page, num_of_rows, total) == page * num_of_rows > total

\* the test that ends the page loop after a page (the same in both reads)
PageIsLast(page, num_of_rows, total) == page * num_of_rows >= total

(***************************************************************************)
(* list_unique_typhoons_in_range: the merge of one item into seen, a dict  *)
(* kept here as the sequence of its values in insertion order, each with   *)
(* the text key it is stored under.                                        *)
(***************************************************************************)
Empty == JStr(<<>>)

Field(it, key) == Strip(PyStr(Get(it, key, Empty)))

SeenAt(seen, typ_seq) == {i \in 1..Len(seen) : seen[i].key = typ_seq}

\* the summary made at the first sight of a number
FirstSight(it, typ_seq, typ_tm, dt) ==
    [key |-> typ_seq, typSeq |-> _safe_int(JStr(typ_seq), 0),
     typName |-> Field(it, "typName"), typEn |-> Field(it, "typEn"),
     firstTypTm |-> typ_tm, lastTypTm |-> typ_tm, firstDt |-> dt, lastDt |-> dt]

\* lastDt taken from every later sight that has a time, whatever its order
Widen_last_arrival(old, typ_tm, dt) ==
    [old EXCEPT
        !.firstDt = IF dt # NoDt /\ (old.firstDt = NoDt \/ DtLess(dt, old.firstDt))
                    THEN dt ELSE @,
        !.firstTypTm = IF dt # NoDt /\ (old.firstDt = NoDt \/ DtLess(dt, old.firstDt))
                       THEN typ_tm ELSE @,
        !.lastDt = IF dt # NoDt THEN dt ELSE @,
        !.lastTypTm = IF dt # NoDt THEN typ_tm ELSE @]

\* the two `if dt and (...)` of a later sight
Widen(old, typ_tm, dt) ==
    [old EXCEPT
        !.firstDt = IF dt # NoDt /\ (old.firstDt = NoDt \/ DtLess(dt, old.firstDt))
                    THEN dt ELSE @,
        !.firstTypTm = IF dt # NoDt /\ (old.firstDt = NoDt \/ DtLess(dt, old.firstDt))
                       THEN typ_tm ELSE @,
        !.lastDt = IF dt # NoDt /\ (old.lastDt = NoDt \/ DtLess(old.lastDt, dt))
                   THEN dt ELSE @,
        !.lastTypTm = IF dt # NoDt /\ (old.lastDt = NoDt \/ DtLess(old.lastDt, dt))
                      THEN typ_tm ELSE @]

WidenAt(seen, i, typ_tm, dt) == [seen EXCEPT ![i] = Widen(seen[i], typ_tm, dt)]

Merge(seen, it, typ_seq, typ_tm, dt) ==
    IF typ_seq = <<>> THEN seen
    ELSE IF SeenAt(seen, typ_seq) = {}
    THEN Append(seen, FirstSight(it, typ_seq, typ_tm, dt))
    ELSE WidenAt(seen, Least(SeenAt(seen, typ_seq)), typ_tm, dt)

MergeAt(seen, it, typ_seq, typ_tm) ==
    Merge(seen, it, typ_seq, typ_tm, _parse_dt_14(typ_tm))

ListItem(seen, it) == MergeAt(seen, it, Field(it, "typSeq"), Field(it, "typTm"))

RECURSIVE ListItems(_, _)
ListItems(seen, items) ==
    IF items = <<>> THEN seen
    ELSE ListItems(ListItem(seen, Head(items)), Tail(items))

\* x.get("lastDt") or datetime.min, x.get("dt") or datetime.min
OrMin(dt) == IF dt = NoDt THEN DtMin ELSE dt

InsertAt(sorted, x, at) ==
    SubSeq(sorted, 1, at - 1) \o <<x>> \o SubSeq(sorted, at, Len(sorted))

FirstOr(S, n) == IF S = {} THEN n ELSE Least(S)

\* list.sort(key, reverse=True): stable, the larger key first
InsertDesc(sorted, x, k) ==
    InsertAt(sorted, x,
             FirstOr({i \in 1..Len(sorted) : DtLess(OrMin(sorted[i].lastDt), k)},
                     Len(sorted) + 1))

RECURSIVE SortByLastDtDesc(_)
SortByLastDtDesc(xs) ==
    IF xs = <<>> THEN <<>>
    ELSE InsertDesc(SortByLastDtDesc(SubSeq(xs, 1, Len(xs) - 1)), xs[Len(xs)],
                    OrMin(xs[Len(xs)].lastDt))

\* the summary as returned, firstDt and lastDt popped
Summary(x) ==
    [typSeq |-> x.typSeq, typName |-> x.typName, typEn |-> x.typEn,
     firstTypTm |-> x.firstTypTm, lastTypTm |-> x.lastTypTm]

Summaries(sorted) == [i \in 1..Len(sorted) |-> Summary(sorted[i])]

ListOut(seen) == Summaries(SortByLastDtDesc(seen))

(***************************************************************************)
(* get_track_points: one item into pts.  typDir, typSp, typPs, typWs,      *)
(* typLoc, tmFc and tmSeq are copied from the item with it.get(key): None  *)
(* where the item has no such key.                                         *)
(***************************************************************************)
\* it.get(key)
Opt(it, key) == Get(it, key, JNull)

NewPoint(it, typ_tm, lat, lon) ==
    [typTm |-> typ_tm, dt |-> _parse_dt_14(typ_tm), lat |-> lat, lon |-> lon,
     typDir |-> Opt(it, "typDir"), typSp |-> Opt(it, "typSp"),
     typPs |-> Opt(it, "typPs"), typWs |-> Opt(it, "typWs"),
     typLoc |-> Opt(it, "typLoc"), tmFc |-> Opt(it, "tmFc"),
     tmSeq |-> Opt(it, "tmSeq")]

\* only the latitude tested
AppendPoint_lat_only(pts, it, typ_tm, lat, lon) ==
    IF ~lat.ok THEN pts
    ELSE Append(pts, NewPoint(it, typ_tm, lat.v, lon.v))

AppendPoint(pts, it, typ_tm, lat, lon) ==
    IF ~lat.ok \/ ~lon.ok THEN pts
    ELSE Append(pts, NewPoint(it, typ_tm, lat.v, lon.v))

TrackItem(pts, it, typ_seq) ==
    IF _safe_int(Get(it, "typSeq", JInt(0)), 0) # typ_seq THEN pts
    ELSE AppendPoint(pts, it, Field(it, "typTm"), PyFloat(Get(it, "typLat", JNull)),
                     PyFloat(Get(it, "typLon", JNull)))

RECURSIVE TrackItems(_, _, _)
TrackItems(pts, items, typ_seq) ==
    IF items = <<>> THEN pts
    ELSE TrackItems(TrackItem(pts, Head(items), typ_seq), Tail(items), typ_seq)

\* list.sort(key): stable, the smaller key first
InsertAsc(sorted, x, k) ==
    InsertAt(sorted, x,
             FirstOr({i \in 1..Len(sorted) : DtLess(k, OrMin(sorted[i].dt))},
                     Len(sorted) + 1))

RECURSIVE SortByDtAsc(_)
SortByDtAsc(xs) ==
    IF xs = <<>> THEN <<>>
    ELSE InsertAsc(SortByDtAsc(SubSeq(xs, 1, Len(xs) - 1)), xs[Len(xs)],
                   OrMin(xs[Len(xs)].dt))

\* the point as returned, dt popped
Point(x) ==
    [typTm |-> x.typTm, lat |-> x.lat, lon |-> x.lon, typDir |-> x.typDir,
     typSp |-> x.typSp, typPs |-> x.typPs, typWs |-> x.typWs, typLoc |-> x.typLoc,
     tmFc |-> x.tmFc, tmSeq |-> x.tmSeq]

Points(sorted) == [i \in 1..Len(sorted) |-> Point(sorted[i])]

TrackOut(pts) == Points(SortByDtAsc(pts))

(***************************************************************************)
(* The record of a variable that holds nothing: of op, srch, near, call    *)
(* and rpc, no call made.                                                  *)
(***************************************************************************)
Idle == [kind |-> "idle"]

NoKey == cache_key(<<>>, <<>>, 0, 0)

(***************************************************************************)
(* The two paginated reads.  op holds the locals of the running call: the  *)
(* page to fetch next, seen or pts, and, as history, one log entry per     *)
(* fetch_typhoon_info call and what the items so far should give.          *)
(* awaiting says that the call of the page has missed the cache and awaits *)
(* client.get, get what its cache.get found.  The turn that leaves the     *)
(* page loop sorts and returns.                                            *)
(***************************************************************************)
MaxPages == 3
MaxRuns == 2

\* num_of_rows: int = 100
NumOfRows == 100

NewOp(kind, from_d, to_d, typ_seq, max_pages, run) ==
    [kind |-> kind, from_s |-> _yyyymmdd(from_d), to_s |-> _yyyymmdd(to_d),
     typ_seq |-> typ_seq, max_pages |-> max_pages, num_of_rows |-> NumOfRows,
     page |-> 1, seen |-> <<>>, pts |-> <<>>,
     status |-> IF 1 <= max_pages THEN "running" ELSE "returned",
     out |-> <<>>, log |-> <<>>, expect |-> <<>>, run |-> run,
     awaiting |-> FALSE, get |-> [at |-> 0, before |-> EmptyStore], key |-> NoKey]

\* a call of fetch_typhoon_info or of get_json that no read makes
NewFetch(kind, key) ==
    [NewOp(kind, <<1, 1, 1>>, <<1, 1, 1>>, 0, 1, 0) EXCEPT !.key = key]

Running(o) == o.kind # "idle" /\ o.status = "running"

\* one log entry: the page asked for, whether the network was called, what
\* the upstream failed with, and what the page held
LogEntry(o, f, u) ==
    [page |-> o.page, called |-> f.called,
     err |-> IF f.called THEN u.err ELSE "",
     nitems |-> Len(_as_items(f.value)),
     total |-> _total_count(f.value)]

ListReturn(o) == [o EXCEPT !.status = "returned", !.out = ListOut(o.seen)]

\* after the items of a page: stop, go to the next page, or leave the loop
ListAfterItems(o, total) ==
    IF PageIsLast(o.page, o.num_of_rows, total) THEN ListReturn(o)
    ELSE IF o.page + 1 <= o.max_pages THEN [o EXCEPT !.page = o.page + 1]
    ELSE ListReturn(o)

ListPageItems(o, items, total) ==
    IF items = <<>> THEN ListReturn(o)
    ELSE ListAfterItems([o EXCEPT !.seen = ListItems(o.seen, items)], total)

\* one turn of the page loop of list_unique_typhoons_in_range, f being what
\* fetch_typhoon_info did
ListTurn(o, f) ==
    IF f.raised THEN [o EXCEPT !.status = "raised"]
    ELSE ListPageItems(o, _as_items(f.value), _total_count(f.value))

TrackReturn(o) == [o EXCEPT !.status = "returned", !.out = TrackOut(o.pts)]

TrackAfterItems(o, total) ==
    IF PageIsLast(o.page, o.num_of_rows, total) THEN TrackReturn(o)
    ELSE IF o.page + 1 <= o.max_pages THEN [o EXCEPT !.page = o.page + 1]
    ELSE TrackReturn(o)

TrackPageItems(o, items, total) ==
    IF items = <<>> THEN TrackReturn(o)
    ELSE TrackAfterItems([o EXCEPT !.pts = TrackItems(o.pts, items, o.typ_seq)],
                         total)

\* one turn of the page loop of get_track_points
TrackTurn(o, f) ==
    IF f.raised THEN [o EXCEPT !.status = "raised"]
    ELSE TrackPageItems(o, _as_items(f.value), _total_count(f.value))

(***************************************************************************)
(* History of a read: what the items fetched so far should give, computed  *)
(* from the items alone.  For a list, per text key, the first item's time  *)
(* text and the set of the valid times; for a track, the points with the   *)
(* wanted number and coordinates that float() reads.                       *)
(***************************************************************************)
ExpAt(expect, key) == {i \in 1..Len(expect) : expect[i].key = key}

\* of a key: the time text of its first item, the valid times of its items
\* and the number of its items whose time is not valid
ExpectFirst(key, tm, dt) ==
    [key |-> key, firstText |-> tm,
     dts |-> IF dt = NoDt THEN {} ELSE {dt},
     bad |-> IF dt = NoDt THEN 1 ELSE 0]

ExpectLater(e, dt) ==
    IF dt = NoDt THEN [e EXCEPT !.bad = @ + 1]
    ELSE [e EXCEPT !.dts = @ \cup {dt}]

ExpectMerge(expect, key, tm, dt) ==
    IF key = <<>> THEN expect
    ELSE IF ExpAt(expect, key) = {}
    THEN Append(expect, ExpectFirst(key, tm, dt))
    ELSE [expect EXCEPT ![Least(ExpAt(expect, key))] = ExpectLater(@, dt)]

ExpectMergeAt(expect, key, tm) == ExpectMerge(expect, key, tm, Strptime(tm))

ExpectListItem(expect, it) ==
    ExpectMergeAt(expect, Field(it, "typSeq"), Field(it, "typTm"))

ExpectPoint(expect, it, seq, typ_seq, lat, lon) ==
    IF seq.ok /\ seq.n = typ_seq /\ lat.ok /\ lon.ok
    THEN Append(expect, Point(NewPoint(it, Field(it, "typTm"), lat.v, lon.v)))
    ELSE expect

ExpectTrackItem(expect, it, typ_seq) ==
    ExpectPoint(expect, it, PyInt(Get(it, "typSeq", JInt(0))), typ_seq,
                PyFloat(it.typLat), PyFloat(it.typLon))

RECURSIVE ExpectItems(_, _, _, _)
ExpectItems(kind, expect, items, typ_seq) ==
    IF items = <<>> THEN expect
    ELSE ExpectItems(kind,
                     IF kind = "list" THEN ExpectListItem(expect, Head(items))
                     ELSE ExpectTrackItem(expect, Head(items), typ_seq),
                     Tail(items), typ_seq)

\* the items of an upstream payload, as the JSON shows them
ItemsSent(payload) ==
    IF payload.shape \in {"list", "bare"} THEN payload.item ELSE <<>>

(***************************************************************************)
(* geo_kr.KOREA_REGION_CENTERS, in the order of the source.  A Hangul      *)
(* syllable is written by its code point, "U+C11C".                        *)
(***************************************************************************)
KOREA_REGION_CENTERS ==
    <<[k |-> <<"U+C11C", "U+C6B8">>,
        lat |-> FNorm(375665, 4), lon |-> FNorm(1269780, 4)],
       [k |-> <<"U+BD80", "U+C0B0">>,
        lat |-> FNorm(351796, 4), lon |-> FNorm(1290756, 4)],
       [k |-> <<"U+B300", "U+AD6C">>,
        lat |-> FNorm(358714, 4), lon |-> FNorm(1286014, 4)],
       [k |-> <<"U+C778", "U+CC9C">>,
        lat |-> FNorm(374563, 4), lon |-> FNorm(1267052, 4)],
       [k |-> <<"U+AD11", "U+C8FC">>,
        lat |-> FNorm(351595, 4), lon |-> FNorm(1268526, 4)],
       [k |-> <<"U+B300", "U+C804">>,
        lat |-> FNorm(363504, 4), lon |-> FNorm(1273845, 4)],
       [k |-> <<"U+C6B8", "U+C0B0">>,
        lat |-> FNorm(355384, 4), lon |-> FNorm(1293114, 4)],
       [k |-> <<"U+C138", "U+C885">>,
        lat |-> FNorm(364800, 4), lon |-> FNorm(1272890, 4)],
       [k |-> <<"U+ACBD", "U+AE30">>,
        lat |-> FNorm(374138, 4), lon |-> FNorm(1275183, 4)],
       [k |-> <<"U+AC15", "U+C6D0">>,
        lat |-> FNorm(378228, 4), lon |-> FNorm(1281555, 4)],
       [k |-> <<"U+CDA9", "U+BD81">>,
        lat |-> FNorm(366357, 4), lon |-> FNorm(1274912, 4)],
       [k |-> <<"U+CDA9", "U+B0A8">>,
        lat |-> FNorm(365184, 4), lon |-> FNorm(1268000, 4)],
       [k |-> <<"U+C804", "U+BD81">>,
        lat |-> FNorm(357175, 4), lon |-> FNorm(1271530, 4)],
       [k |-> <<"U+C804", "U+B0A8">>,
        lat |-> FNorm(348161, 4), lon |-> FNorm(1264630, 4)],
       [k |-> <<"U+ACBD", "U+BD81">>,
        lat |-> FNorm(364919, 4), lon |-> FNorm(1288889, 4)],
       [k |-> <<"U+ACBD", "U+B0A8">>,
        lat |-> FNorm(354606, 4), lon |-> FNorm(1282132, 4)],
       [k |-> <<"U+C81C", "U+C8FC">>,
        lat |-> FNorm(334996, 4), lon |-> FNorm(1265312, 4)],
       [k |-> <<"U+C81C", "U+C8FC", "U+C2DC">>,
        lat |-> FNorm(334996, 4), lon |-> FNorm(1265312, 4)],
       [k |-> <<"U+C11C", "U+ADC0", "U+D3EC">>,
        lat |-> FNorm(332541, 4), lon |-> FNorm(1265601, 4)]>>

(***************************************************************************)
(* haversine_km.  Its sines, cosines and arc tangent are those of the C    *)
(* library, which the model does not compute: it keeps the doubles that    *)
(* haversine_km returns from each centre of KOREA_REGION_CENTERS, the only *)
(* targets geocode_korea gives, to each of these centres (ToCentres) and   *)
(* to each point of whole degrees with latitude 0, 5, .. 60 and longitude  *)
(* 100, 105, .. 180 (ToGrid, the latitudes one after the other), and has   *)
(* no distance between other coordinates that are numbers.  A distance has *)
(* sixteen or seventeen digits, over what an integer of the model holds:   *)
(* a double whose digits are 2^31 or over is held as                       *)
(* [nan, inf, nz, m, e, lo], the double whose repr() is                    *)
(* (m * 10^9 + lo) / 10^e, with lo under 10^9; such a double is positive.  *)
(* An entry of the tables is <<m, lo, e>>.                                 *)
(***************************************************************************)
Abs(n) == IF n < 0 THEN 0 - n ELSE n

Max(a, b) == IF a >= b THEN a ELSE b

\* from the i-th centre to the j-th
ToCentres ==
  <<
    <<
     <<0, 0, 0>>, <<32511125, 884976224, 14>>, <<23761207, 728264947, 14>>,
     <<27002336, 565234273, 15>>, <<2678815, 337857255, 13>>,
     <<1399642, 533968494, 13>>, <<3070591, 412775628, 13>>,
     <<12392772, 713820078, 14>>, <<50603436, 813538735, 15>>,
     <<10745138, 661366481, 14>>, <<11306486, 269429269, 14>>,
     <<11760923, 738057555, 14>>, <<2061912, 937179125, 13>>,
     <<30930108, 14228153, 14>>, <<20748308, 172074306, 14>>,
     <<2588731, 776142374, 13>>, <<4540204, 426328576, 13>>,
     <<4540204, 426328576, 13>>, <<48100852, 202830936, 14>> >>,
    <<
     <<32511125, 884976224, 14>>, <<0, 0, 0>>, <<8808470, 900964392, 14>>,
     <<33041484, 134288737, 14>>, <<2020708, 908823877, 13>>,
     <<2005666, 433645848, 13>>, <<4526579, 620827832, 14>>,
     <<21644233, 198793046, 14>>, <<2849375, 632369046, 13>>,
     <<3051947, 142051159, 13>>, <<21581090, 900513468, 14>>,
     <<25341908, 112399057, 14>>, <<18413624, 533245144, 14>>,
     <<24137683, 539047734, 14>>, <<1468883, 629934341, 13>>,
     <<8425141, 84032718, 14>>, <<29909842, 857372337, 14>>,
     <<29909842, 857372337, 14>>, <<3151585, 973326344, 13>> >>,
    <<
     <<23761207, 728264947, 14>>, <<8808470, 900964392, 14>>, <<0, 0, 0>>,
     <<24424966, 494976326, 14>>, <<1769675, 656959759, 13>>,
     <<12160028, 758243472, 14>>, <<7403344, 511962693, 14>>,
     <<13585100, 971316479, 14>>, <<1968532, 897918248, 13>>,
     <<22058264, 757565047, 14>>, <<13089066, 573321045, 14>>,
     <<17693232, 262120128, 14>>, <<1317496, 214776946, 13>>,
     <<2266809, 622569007, 13>>, <<7366347, 718448917, 14>>,
     <<5758815, 714725771, 14>>, <<324608, 304657499, 12>>,
     <<324608, 304657499, 12>>, <<34586458, 26496655, 14>> >>,
    <<
     <<27002336, 565234273, 15>>, <<33041484, 134288737, 14>>,
     <<24424966, 494976326, 14>>, <<0, 0, 0>>, <<25573369, 186184118, 14>>,
     <<1370026, 754710092, 13>>, <<3158085, 526637363, 13>>,
     <<12031228, 407734898, 14>>, <<7194662, 678827507, 14>>,
     <<13404468, 835226456, 14>>, <<11485573, 818929744, 14>>,
     <<10462905, 354470644, 14>>, <<19743548, 404347274, 14>>,
     <<29438108, 96650575, 14>>, <<22164580, 830172537, 14>>,
     <<25966910, 263092774, 14>>, <<4402467, 108963451, 13>>,
     <<4402467, 108963451, 13>>, <<46744836, 329199546, 14>> >>,
    <<
     <<2678815, 337857255, 13>>, <<2020708, 908823877, 13>>,
     <<1769675, 656959759, 13>>, <<25573369, 186184118, 14>>, <<0, 0, 0>>,
     <<14085138, 99936853, 14>>, <<22694037, 579468844, 14>>,
     <<15201297, 757547422, 14>>, <<2576678, 898554214, 13>>,
     <<3182159, 218139308, 13>>, <<17393158, 866334562, 14>>,
     <<15117714, 999318073, 14>>, <<6775267, 136346768, 14>>,
     <<52131856, 827235566, 15>>, <<23590082, 810440083, 14>>,
     <<12791758, 942716635, 14>>, <<18691668, 761988973, 14>>,
     <<18691668, 761988973, 14>>, <<21357105, 705696193, 14>> >>,
    <<
     <<1399642, 533968494, 13>>, <<2005666, 433645848, 13>>,
     <<12160028, 758243472, 14>>, <<1370026, 754710092, 13>>,
     <<14085138, 99936853, 14>>, <<0, 0, 0>>, <<1955494, 464164398, 13>>,
     <<1675410, 238260062, 14>>, <<11884197, 145290467, 14>>,
     <<1774311, 737866068, 13>>, <<3312678, 163349715, 14>>,
     <<5552624, 578847315, 14>>, <<733893, 126291099, 13>>,
     <<18986778, 141525764, 14>>, <<13552231, 356602542, 14>>,
     <<12393492, 808338932, 14>>, <<3263960, 466005569, 13>>,
     <<3263960, 466005569, 13>>, <<35242023, 849904643, 14>> >>,
    <<
     <<3070591, 412775628, 13>>, <<4526579, 620827832, 14>>,
     <<7403344, 511962693, 14>>, <<3158085, 526637363, 13>>,
     <<22694037, 579468844, 14>>, <<1955494, 464164398, 13>>, <<0, 0, 0>>,
     <<20988290, 659037295, 14>>, <<2630289, 905880144, 13>>,
     <<2741244, 828755318, 13>>, <<20405142, 870863847, 14>>,
     <<25074413, 365563137, 14>>, <<1960883, 537044462, 13>>,
     <<2710447, 235724502, 13>>, <<11262811, 452415225, 14>>,
     <<9979089, 458730735, 14>>, <<34096075, 651598386, 14>>,
     <<34096075, 651598386, 14>>, <<3580760, 26728663, 13>> >>,
    <<
     <<12392772, 713820078, 14>>, <<21644233, 198793046, 14>>,
     <<13585100, 971316479, 14>>, <<12031228, 407734898, 14>>,
     <<15201297, 757547422, 14>>, <<1675410, 238260062, 14>>,
     <<20988290, 659037295, 14>>, <<0, 0, 0>>, <<10581427, 413105035, 14>>,
     <<16790172, 387292031, 14>>, <<25018155, 173408374, 15>>,
     <<43917634, 282804975, 15>>, <<8566205, 137132259, 14>>,
     <<19950158, 860790995, 14>>, <<14303717, 36072595, 14>>,
     <<1405901, 747846911, 13>>, <<3385150, 253769709, 13>>,
     <<3385150, 253769709, 13>>, <<3648118, 807869037, 13>> >>,
    <<
     <<50603436, 813538735, 15>>, <<2849375, 632369046, 13>>,
     <<1968532, 897918248, 13>>, <<7194662, 678827507, 14>>,
     <<2576678, 898554214, 13>>, <<11884197, 145290467, 14>>,
     <<2630289, 905880144, 13>>, <<10581427, 413105035, 14>>, <<0, 0, 0>>,
     <<7223581, 176160774, 14>>, <<8655421, 274983478, 14>>,
     <<11825937, 595123297, 14>>, <<1914200, 664877131, 13>>,
     <<3040014, 626747808, 13>>, <<159186, 147922934, 12>>,
     <<22590499, 912591523, 14>>, <<44431818, 474728334, 14>>,
     <<44431818, 474728334, 14>>, <<4706248, 633553552, 13>> >>,
    <<
     <<10745138, 661366481, 14>>, <<3051947, 142051159, 13>>,
     <<22058264, 757565047, 14>>, <<13404468, 835226456, 14>>,
     <<3182159, 218139308, 13>>, <<1774311, 737866068, 13>>,
     <<2741244, 828755318, 13>>, <<16790172, 387292031, 14>>,
     <<7223581, 176160774, 14>>, <<0, 0, 0>>, <<14450825, 951901686, 14>>,
     <<18830900, 223063253, 14>>, <<2505459, 46127297, 13>>,
     <<3670904, 498621863, 13>>, <<16163081, 687769744, 14>>,
     <<2627150, 810059368, 13>>, <<5025905, 722598349, 13>>,
     <<5025905, 722598349, 13>>, <<5281008, 900324382, 13>> >>,
    <<
     <<11306486, 269429269, 14>>, <<21581090, 900513468, 14>>,
     <<13089066, 573321045, 14>>, <<11485573, 818929744, 14>>,
     <<17393158, 866334562, 14>>, <<3312678, 163349715, 14>>,
     <<20405142, 870863847, 14>>, <<25018155, 173408374, 15>>,
     <<8655421, 274983478, 14>>, <<14450825, 951901686, 14>>, <<0, 0, 0>>,
     <<6308419, 734024121, 14>>, <<10651600, 922254158, 14>>,
     <<22259919, 264074924, 14>>, <<12584887, 205128125, 14>>,
     <<14589840, 435955531, 14>>, <<35949022, 797480563, 14>>,
     <<35949022, 797480563, 14>>, <<38546825, 892934294, 14>> >>,
    <<
     <<11760923, 738057555, 14>>, <<25341908, 112399057, 14>>,
     <<17693232, 262120128, 14>>, <<10462905, 354470644, 14>>,
     <<15117714, 999318073, 14>>, <<5552624, 578847315, 14>>,
     <<25074413, 365563137, 14>>, <<43917634, 282804975, 15>>,
     <<11825937, 595123297, 14>>, <<18830900, 223063253, 14>>,
     <<6308419, 734024121, 14>>, <<0, 0, 0>>, <<945320, 908452689, 13>>,
     <<1917191, 807856382, 13>>, <<18672308, 692767567, 14>>,
     <<17320413, 64380514, 14>>, <<3365662, 655185922, 13>>,
     <<3365662, 655185922, 13>>, <<3636321, 303178403, 13>> >>,
    <<
     <<2061912, 937179125, 13>>, <<18413624, 533245144, 14>>,
     <<1317496, 214776946, 13>>, <<19743548, 404347274, 14>>,
     <<6775267, 136346768, 14>>, <<733893, 126291099, 13>>,
     <<1960883, 537044462, 13>>, <<8566205, 137132259, 14>>,
     <<1914200, 664877131, 13>>, <<2505459, 46127297, 13>>,
     <<10651600, 922254158, 14>>, <<945320, 908452689, 13>>, <<0, 0, 0>>,
     <<11819583, 604739528, 14>>, <<17814064, 831098312, 14>>,
     <<10003340, 734226035, 14>>, <<25309763, 756774362, 14>>,
     <<25309763, 756774362, 14>>, <<2792539, 466680258, 13>> >>,
    <<
     <<30930108, 14228153, 14>>, <<24137683, 539047734, 14>>,
     <<2266809, 622569007, 13>>, <<29438108, 96650575, 14>>,
     <<52131856, 827235566, 15>>, <<18986778, 141525764, 14>>,
     <<2710447, 235724502, 13>>, <<19950158, 860790995, 14>>,
     <<3040014, 626747808, 13>>, <<3670904, 498621863, 13>>,
     <<22259919, 264074924, 14>>, <<1917191, 807856382, 13>>,
     <<11819583, 604739528, 14>>, <<0, 0, 0>>, <<2876686, 516579237, 13>>,
     <<17453549, 187110053, 14>>, <<14652254, 824613868, 14>>,
     <<14652254, 824613868, 14>>, <<17391675, 219266114, 14>> >>,
    <<
     <<20748308, 172074306, 14>>, <<1468883, 629934341, 13>>,
     <<7366347, 718448917, 14>>, <<22164580, 830172537, 14>>,
     <<23590082, 810440083, 14>>, <<13552231, 356602542, 14>>,
     <<11262811, 452415225, 14>>, <<14303717, 36072595, 14>>,
     <<159186, 147922934, 12>>, <<16163081, 687769744, 14>>,
     <<12584887, 205128125, 14>>, <<18672308, 692767567, 14>>,
     <<17814064, 831098312, 14>>, <<2876686, 516579237, 13>>, <<0, 0, 0>>,
     <<1297967, 711049656, 13>>, <<39598440, 547287515, 14>>,
     <<39598440, 547287515, 14>>, <<4179979, 761974449, 13>> >>,
    <<
     <<2588731, 776142374, 13>>, <<8425141, 84032718, 14>>,
     <<5758815, 714725771, 14>>, <<25966910, 263092774, 14>>,
     <<12791758, 942716635, 14>>, <<12393492, 808338932, 14>>,
     <<9979089, 458730735, 14>>, <<1405901, 747846911, 13>>,
     <<22590499, 912591523, 14>>, <<2627150, 810059368, 13>>,
     <<14589840, 435955531, 14>>, <<17320413, 64380514, 14>>,
     <<10003340, 734226035, 14>>, <<17453549, 187110053, 14>>,
     <<1297967, 711049656, 13>>, <<0, 0, 0>>, <<2670400, 378323252, 13>>,
     <<2670400, 378323252, 13>>, <<2884737, 348683156, 13>> >>,
    <<
     <<4540204, 426328576, 13>>, <<29909842, 857372337, 14>>,
     <<324608, 304657499, 12>>, <<4402467, 108963451, 13>>,
     <<18691668, 761988973, 14>>, <<3263960, 466005569, 13>>,
     <<34096075, 651598386, 14>>, <<3385150, 253769709, 13>>,
     <<44431818, 474728334, 14>>, <<5025905, 722598349, 13>>,
     <<35949022, 797480563, 14>>, <<3365662, 655185922, 13>>,
     <<25309763, 756774362, 14>>, <<14652254, 824613868, 14>>,
     <<39598440, 547287515, 14>>, <<2670400, 378323252, 13>>, <<0, 0, 0>>,
     <<0, 0, 0>>, <<2742993, 700943937, 14>> >>,
    <<
     <<4540204, 426328576, 13>>, <<29909842, 857372337, 14>>,
     <<324608, 304657499, 12>>, <<4402467, 108963451, 13>>,
     <<18691668, 761988973, 14>>, <<3263960, 466005569, 13>>,
     <<34096075, 651598386, 14>>, <<3385150, 253769709, 13>>,
     <<44431818, 474728334, 14>>, <<5025905, 722598349, 13>>,
     <<35949022, 797480563, 14>>, <<3365662, 655185922, 13>>,
     <<25309763, 756774362, 14>>, <<14652254, 824613868, 14>>,
     <<39598440, 547287515, 14>>, <<2670400, 378323252, 13>>, <<0, 0, 0>>,
     <<0, 0, 0>>, <<2742993, 700943937, 14>> >>,
    <<
     <<48100852, 202830936, 14>>, <<3151585, 973326344, 13>>,
     <<34586458, 26496655, 14>>, <<46744836, 329199546, 14>>,
     <<21357105, 705696193, 14>>, <<35242023, 849904643, 14>>,
     <<3580760, 26728663, 13>>, <<3648118, 807869037, 13>>,
     <<4706248, 633553552, 13>>, <<5281008, 900324382, 13>>,
     <<38546825, 892934294, 14>>, <<3636321, 303178403, 13>>,
     <<2792539, 466680258, 13>>, <<17391675, 219266114, 14>>,
     <<4179979, 761974449, 13>>, <<2884737, 348683156, 13>>,
     <<2742993, 700943937, 14>>, <<2742993, 700943937, 14>>, <<0, 0, 0>> >> >>

\* from the i-th centre to the points of whole degrees
ToGrid ==
  <<
    <<
     <<5010216, 670415563, 12>>, <<4746819, 146373631, 12>>,
     <<4525965, 958190278, 12>>, <<4354365, 980243115, 12>>,
     <<4238178, 486432525, 12>>, <<4182137, 79438811, 12>>,
     <<4188709, 234205986, 12>>, <<42575989, 827253825, 13>>,
     <<43858087, 333252215, 13>>, <<4568232, 131938789, 12>>,
     <<4798526, 688716326, 12>>, <<5069964, 119971238, 12>>,
     <<537606, 382451073, 11>>, <<57109608, 668814035, 13>>,
     <<6069554, 704232268, 12>>, <<6447514, 719031231, 12>>,
     <<6841209, 444954884, 12>>, <<4538261, 282366762, 12>>,
     <<4252526, 224914867, 12>>, <<4010211, 191443811, 12>>,
     <<38198988, 490888523, 13>>, <<368987, 864826822, 11>>,
     <<36267945, 364363068, 13>>, <<3634205, 729279199, 12>>,
     <<3711681, 802701559, 12>>, <<3854917, 148771876, 12>>,
     <<40567999, 330197335, 13>>, <<4308879, 669497073, 12>>,
     <<4602644, 182627541, 12>>, <<4930323, 327775407, 12>>,
     <<5285238, 171174094, 12>>, <<56618454, 860898055, 13>>,
     <<6055626, 97370365, 12>>, <<6462916, 753629459, 12>>,
     <<40834763, 486011534, 13>>, <<37725492, 116529085, 13>>,
     <<3504919, 268047632, 12>>, <<32915817, 703940397, 13>>,
     <<31439269, 891078566, 13>>, <<3071652, 39537135, 12>>,
     <<3080165, 949388898, 12>>, <<31688065, 214052267, 13>>,
     <<33310716, 571058256, 13>>, <<3556697, 865168142, 12>>,
     <<38342368, 489835403, 13>>, <<4152945, 750796707, 12>>,
     <<450368, 270187862, 11>>, <<4879077, 758447521, 12>>,
     <<527334, 405383699, 11>>, <<5681975, 274130887, 12>>,
     <<6101448, 764431027, 12>>, <<3652458, 270019058, 12>>,
     <<3313242, 114316074, 12>>, <<3015435, 931992152, 12>>,
     <<2772975, 616608683, 12>>, <<2601817, 683905505, 12>>,
     <<25168432, 521737745, 13>>, <<25268979, 312193214, 13>>,
     <<2630877, 257640868, 12>>, <<28182547, 596178783, 13>>,
     <<30735518, 615548913, 13>>, <<33810597, 325582717, 13>>,
     <<3727440, 87166068, 12>>, <<4102349, 232341714, 12>>,
     <<4498086, 436717441, 12>>, <<49089833, 313688005, 13>>,
     <<5330841, 200003046, 12>>, <<5760495, 546287573, 12>>,
     <<3254824, 348270914, 12>>, <<28846132, 418468837, 13>>,
     <<255095, 533497404, 11>>, <<22707862, 407681637, 13>>,
     <<20665924, 479150262, 13>>, <<1962652, 517862271, 12>>,
     <<19750534, 241958203, 13>>, <<21017156, 832774554, 13>>,
     <<23238287, 114063837, 13>>, <<2616856, 254809443, 12>>,
     <<29593527, 990535645, 13>>, <<33355698, 651841917, 13>>,
     <<37347100, 911065563, 13>>, <<4149475, 310447847, 12>>,
     <<4574865, 360175869, 12>>, <<5007357, 446705993, 12>>,
     <<5444378, 346705383, 12>>, <<29044625, 5961384, 13>>,
     <<25025829, 837348138, 13>>, <<21279863, 545112503, 13>>,
     <<1798858, 14114888, 12>>, <<1545436, 665981223, 12>>,
     <<14098103, 122649043, 13>>, <<1426288, 987582074, 12>>,
     <<15901202, 597887275, 13>>, <<18625458, 123008518, 13>>,
     <<2203201, 470729494, 12>>, <<25846805, 786121618, 13>>,
     <<2990738, 159378787, 12>>, <<3411867, 920376125, 12>>,
     <<3842306, 645665282, 12>>, <<4278370, 700777398, 12>>,
     <<47175616, 272933785, 13>>, <<5158075, 884646658, 12>>,
     <<2620524, 658254007, 12>>, <<21917479, 478787536, 13>>,
     <<17764972, 540568492, 13>>, <<13884397, 309328276, 13>>,
     <<1059340, 655809467, 12>>, <<8609201, 628348842, 13>>,
     <<8863479, 932683355, 13>>, <<1120439, 650426366, 12>>,
     <<14660774, 252307615, 13>>, <<18615753, 98741086, 13>>,
     <<22804438, 75226044, 13>>, <<2711082, 457670897, 12>>,
     <<3147799, 25490265, 12>>, <<35874430, 101686457, 13>>,
     <<40280617, 164973582, 13>>, <<4468309, 694395969, 12>>,
     <<49071642, 785845315, 13>>, <<24265354, 889876317, 13>>,
     <<1985896, 484698779, 12>>, <<15460851, 627364582, 13>>,
     <<1110030, 894752381, 12>>, <<687250, 421255545, 12>>,
     <<3359494, 980387243, 13>>, <<3934183, 600799233, 13>>,
     <<7732715, 746952869, 13>>, <<12004943, 759916323, 13>>,
     <<16377462, 665468831, 13>>, <<2077890, 799923413, 12>>,
     <<25185078, 467679627, 13>>, <<29584108, 331115913, 13>>,
     <<3396838, 49197733, 12>>, <<3833195, 725709971, 12>>,
     <<4266957, 148993075, 12>>, <<46976158, 309905695, 13>>,
     <<23449850, 925066526, 13>>, <<19191563, 343564094, 13>>,
     <<14938951, 235561767, 13>>, <<10719796, 38934214, 13>>,
     <<6623582, 218968284, 13>>, <<32031499, 117104744, 14>>,
     <<376561, 87052732, 12>>, <<7457819, 652776603, 13>>,
     <<11595408, 716806578, 13>>, <<15825443, 678743668, 13>>,
     <<20080774, 102369153, 13>>, <<2433837, 265851274, 12>>,
     <<2858671, 164323792, 12>>, <<3281821, 260142681, 12>>,
     <<3702685, 44496842, 12>>, <<4120721, 316935864, 12>>,
     <<453540, 657485442, 11>>, <<2387446, 494551071, 12>>,
     <<20054766, 96208048, 13>>, <<16370675, 584267328, 13>>,
     <<12956406, 35041612, 13>>, <<10106527, 989558488, 13>>,
     <<8428537, 402356968, 13>>, <<864102, 742772285, 12>>,
     <<10630670, 210905932, 13>>, <<13636107, 404799513, 13>>,
     <<17123628, 660044621, 13>>, <<20843983, 935618194, 13>>,
     <<2468226, 378806972, 12>>, <<2858023, 903228078, 12>>,
     <<32504920, 727047465, 13>>, <<3643547, 77028806, 12>>,
     <<40357308, 2308687, 13>>, <<4425922, 914292625, 12>>,
     <<2547715, 654092496, 12>>, <<22271164, 252164235, 13>>,
     <<19326488, 804406622, 13>>, <<167951, 536222985, 11>>,
     <<14901020, 271823133, 13>>, <<1391496, 797270771, 12>>,
     <<14033537, 470088966, 13>>, <<15230550, 724789928, 13>>,
     <<17279613, 282004984, 13>>, <<19913258, 213583047, 13>>,
     <<22922895, 454477293, 13>>, <<2616976, 37862132, 12>>,
     <<29565343, 937700036, 13>>, <<3305248, 122213491, 12>>,
     <<3659285, 343104726, 12>>, <<40159503, 481421502, 13>>,
     <<4373243, 53614916, 12>>, <<2805636, 180662361, 12>>,
     <<254898, 359697642, 11>>, <<23231503, 886205746, 13>>,
     <<21390038, 668535085, 13>>, <<2008892, 797682602, 12>>,
     <<19442691, 494900448, 13>>, <<19519165, 980862167, 13>>,
     <<2030988, 997170025, 12>>, <<21734093, 305558504, 13>>,
     <<23672538, 636732797, 13>>, <<26003481, 969996824, 13>>,
     <<2862271, 802352025, 12>>, <<31448601, 717456218, 13>>,
     <<34419547, 293912015, 13>>, <<37489462, 747536754, 13>>,
     <<40623494, 397961676, 13>>, <<4379471, 761275971, 12>>,
     <<313715, 211050236, 11>>, <<29382735, 366520815, 13>>,
     <<27686616, 147057366, 13>>, <<26348208, 176945764, 13>>,
     <<25430537, 175354452, 13>>, <<2498430, 925551126, 12>>,
     <<25036766, 533190507, 13>>, <<2558461, 152827649, 12>>,
     <<26594904, 629635425, 13>>, <<28013410, 109742654, 13>>,
     <<2977592, 735475957, 12>>, <<3181797, 585947991, 12>>,
     <<3408073, 242391993, 12>>, <<36513488, 379385813, 13>>,
     <<39073849, 170238213, 13>>, <<4172682, 445404118, 12>>,
     <<4444355, 74953189, 12>> >>,
    <<
     <<4938198, 898300249, 12>>, <<4640572, 138092971, 12>>,
     <<438374, 608997564, 11>>, <<417549, 594106972, 11>>,
     <<40235578, 727586562, 13>>, <<39345918, 65162996, 13>>,
     <<3912969, 197599669, 12>>, <<39598107, 752230612, 13>>,
     <<40727181, 926506078, 13>>, <<4246337, 471456145, 12>>,
     <<4473471, 522601504, 12>>, <<4746267, 45548164, 12>>,
     <<5057123, 693630382, 12>>, <<5399217, 186932445, 12>>,
     <<5766699, 870136111, 12>>, <<61546971, 425954835, 13>>,
     <<6559202, 274036145, 12>>, <<4489281, 676320879, 12>>,
     <<4167002, 678259082, 12>>, <<3885259, 650818531, 12>>,
     <<36537716, 301158507, 13>>, <<34828334, 115755515, 13>>,
     <<3381822, 698761103, 12>>, <<33571611, 639366433, 13>>,
     <<34105297, 691318247, 13>>, <<35383485, 848724304, 13>>,
     <<37328580, 679644306, 13>>, <<39841216, 705964775, 13>>,
     <<4281924, 607793012, 12>>, <<461698, 511839318, 11>>,
     <<498145, 980966315, 11>>, <<5368986, 190214355, 12>>,
     <<5774505, 324299577, 12>>, <<6194018, 662923104, 12>>,
     <<4062003, 415085976, 12>>, <<3712660, 274674605, 12>>,
     <<34021111, 275228513, 13>>, <<3142329, 397910971, 12>>,
     <<2947131, 922565889, 12>>, <<2830171, 829786656, 12>>,
     <<2801412, 88536324, 12>>, <<28635455, 16251253, 13>>,
     <<30108799, 122877645, 13>>, <<32316209, 218707063, 13>>,
     <<35117124, 160126846, 13>>, <<383787, 386320136, 11>>,
     <<4199016, 47642911, 12>>, <<4586461, 905780619, 12>>,
     <<4993620, 269668384, 12>>, <<5415523, 869263592, 12>>,
     <<5848407, 492312462, 12>>, <<36641416, 740493273, 13>>,
     <<32856795, 348491787, 13>>, <<29419690, 68908217, 13>>,
     <<2647196, 240315981, 12>>, <<24198189, 538553956, 13>>,
     <<2280456, 654454109, 12>>, <<22457660, 441819994, 13>>,
     <<2320494, 749553283, 12>>, <<2494731, 771451642, 12>>,
     <<27494050, 520070823, 13>>, <<3064207, 820481593, 12>>,
     <<34221900, 92931564, 13>>, <<3810737, 858518142, 12>>,
     <<42208943, 183237025, 13>>, <<4646359, 677541748, 12>>,
     <<5082654, 809236827, 12>>, <<5526522, 547805562, 12>>,
     <<3306511, 268938947, 12>>, <<2898314, 106793206, 12>>,
     <<25175752, 99096326, 13>>, <<2179574, 154363272, 12>>,
     <<19078900, 615920725, 13>>, <<17345245, 812806834, 13>>,
     <<16903249, 562211272, 13>>, <<17849836, 448934873, 13>>,
     <<1998731, 815967456, 12>>, <<22982864, 847850556, 13>>,
     <<26543440, 437761406, 13>>, <<3046657, 507007459, 12>>,
     <<3462349, 767363339, 12>>, <<38933007, 873725815, 13>>,
     <<4334263, 486950532, 12>>, <<4781712, 671141694, 12>>,
     <<5233168, 723600743, 12>>, <<3003671, 793665991, 12>>,
     <<2568668, 410754087, 12>>, <<2150287, 791195183, 12>>,
     <<1761566, 129904938, 12>>, <<14280153, 939049824, 13>>,
     <<11975672, 393452942, 13>>, <<11353900, 199520547, 13>>,
     <<12666248, 522365943, 13>>, <<15424785, 876752028, 13>>,
     <<19006059, 611096928, 13>>, <<23024096, 373268058, 13>>,
     <<272804, 15326362, 11>>, <<31672116, 14222856, 13>>,
     <<3614232, 79321597, 12>>, <<4065694, 357307023, 12>>,
     <<451938, 922147703, 11>>, <<4973766, 259516725, 12>>,
     <<2773753, 234403692, 12>>, <<23215584, 534826385, 13>>,
     <<18740611, 241273186, 13>>, <<1437185, 393030198, 12>>,
     <<10262213, 119562887, 13>>, <<6908465, 515005526, 13>>,
     <<5824103, 475997331, 13>>, <<799521, 828525857, 12>>,
     <<117332, 964807562, 11>>, <<15968578, 353380829, 13>>,
     <<2038709, 972677429, 12>>, <<2488404, 203734266, 12>>,
     <<2941532, 529184074, 12>>, <<33958439, 96215748, 13>>,
     <<3849983, 752324321, 12>>, <<4303011, 461712798, 12>>,
     <<4754188, 533289902, 12>>, <<26359961, 532143934, 13>>,
     <<21852338, 8040015, 13>>, <<17330484, 30615846, 13>>,
     <<12797614, 444163548, 13>>, <<8257027, 877646815, 13>>,
     <<37133160, 631764514, 14>>, <<8644503, 253137766, 14>>,
     <<5393242, 870633231, 13>>, <<9936627, 758685763, 13>>,
     <<14474768, 577408017, 13>>, <<19003938, 451725633, 13>>,
     <<2352090, 799322768, 12>>, <<2802244, 14078118, 12>>,
     <<3250517, 946193739, 12>>, <<36965596, 494910023, 13>>,
     <<4139994, 284577944, 12>>, <<4580420, 710153083, 12>>,
     <<2605112, 510042452, 12>>, <<2180606, 401536357, 12>>,
     <<17600765, 95922088, 13>>, <<13490785, 268910042, 13>>,
     <<9618759, 740253835, 13>>, <<6449994, 136459417, 13>>,
     <<54214, 703445817, 11>>, <<7478303, 184168664, 13>>,
     <<110056, 767692726, 11>>, <<1499351, 112281813, 12>>,
     <<19148535, 838598098, 13>>, <<2337287, 678501065, 12>>,
     <<2762502, 418664663, 12>>, <<3188341, 553424698, 12>>,
     <<36134755, 573030857, 13>>, <<4036955, 367418215, 12>>,
     <<4458016, 613778245, 12>>, <<2684803, 485678248, 12>>,
     <<23084694, 125958827, 13>>, <<19481602, 982375114, 13>>,
     <<16162170, 200657947, 13>>, <<13354335, 469826315, 13>>,
     <<11452852, 427268906, 13>>, <<1094784, 774028699, 12>>,
     <<1201819, 347637822, 12>>, <<1431202, 952229646, 12>>,
     <<17345121, 546498106, 13>>, <<20789013, 477131016, 13>>,
     <<2446205, 717522041, 12>>, <<28265252, 343830016, 13>>,
     <<32141767, 942486035, 13>>, <<3605654, 883564146, 12>>,
     <<3998624, 385719387, 12>>, <<4391405, 319462354, 12>>,
     <<2865833, 990182926, 12>>, <<2548934, 923303165, 12>>,
     <<22573721, 475540206, 13>>, <<20035363, 101821235, 13>>,
     <<1804518, 693135267, 12>>, <<1680726, 950083514, 12>>,
     <<1649655, 510774139, 12>>, <<1716454, 600628479, 12>>,
     <<18704550, 506691037, 13>>, <<209201, 935316453, 11>>,
     <<23615413, 233469226, 13>>, <<2663684, 8554315, 12>>,
     <<29876255, 656824783, 13>>, <<3325960, 215007772, 12>>,
     <<3673583, 575930444, 12>>, <<4026882, 118766015, 12>>,
     <<4383200, 861743815, 12>>, <<31306168, 727332642, 13>>,
     <<2873825, 958739786, 12>>, <<26455380, 895649787, 13>>,
     <<24547701, 624424835, 13>>, <<23116809, 783565677, 13>>,
     <<22260970, 282681783, 13>>, <<2205074, 72231627, 12>>,
     <<22505039, 44417545, 13>>, <<2358380, 97724382, 12>>,
     <<252030, 657773273, 11>>, <<2726091, 237114049, 12>>,
     <<2965884, 707005303, 12>>, <<32312587, 169919484, 13>>,
     <<35154473, 754918845, 13>>, <<38131713, 193897717, 13>>,
     <<41203353, 942060085, 13>>, <<4433735, 862772013, 12>>,
     <<34598952, 900149793, 13>>, <<32579158, 75140203, 13>>,
     <<30829304, 445588277, 13>>, <<29406125, 670098104, 13>>,
     <<28365563, 948526765, 13>>, <<2775546, 372725206, 12>>,
     <<27607096, 893333687, 13>>, <<27928465, 525809465, 13>>,
     <<2870243, 787804157, 12>>, <<29890663, 928566087, 13>>,
     <<31441328, 923038623, 13>>, <<3329747, 94533436, 12>>,
     <<35403409, 546843905, 13>>, <<37708503, 306101225, 13>>,
     <<4016865, 38207177, 12>>, <<4274634, 308897238, 12>>,
     <<4540999, 1886012, 12>> >>,
    <<
     <<496451, 664580032, 11>>, <<4675827, 53521752, 12>>,
     <<44283506, 427067305, 13>>, <<42295668, 588223125, 13>>,
     <<40867716, 90350673, 13>>, <<40060839, 64197553, 13>>,
     <<3991341, 695738223, 12>>, <<4043278, 697894683, 12>>,
     <<4159355, 386782217, 12>>, <<4334328, 25129715, 12>>,
     <<4561282, 861936767, 12>>, <<483271, 719966733, 11>>,
     <<514136, 559323378, 11>>, <<5480679, 961067352, 12>>,
     <<5845019, 348822232, 12>>, <<6229653, 126762392, 12>>,
     <<6630668, 769448512, 12>>, <<4509204, 682193191, 12>>,
     <<4196490, 423117391, 12>>, <<39250345, 761433423, 13>>,
     <<3704245, 520587536, 12>>, <<35438606, 156138203, 13>>,
     <<34524856, 479554173, 13>>, <<343572, 791315562, 11>>,
     <<34946780, 767925316, 13>>, <<36255867, 957665046, 13>>,
     <<38209379, 663934055, 13>>, <<4071276, 812077729, 12>>,
     <<4366912, 444416457, 12>>, <<4699008, 226000378, 12>>,
     <<5060048, 269416923, 12>>, <<5443888, 868712616, 12>>,
     <<5845606, 490539273, 12>>, <<6261279, 943555448, 12>>,
     <<4074258, 49273357, 12>>, <<37349733, 194317973, 13>>,
     <<34356435, 392326116, 13>>, <<31879870, 880622484, 13>>,
     <<3005158, 335230337, 12>>, <<28996930, 783410394, 13>>,
     <<2880237, 646987285, 12>>, <<29485188, 136645224, 13>>,
     <<30986622, 74205125, 13>>, <<3319406, 958997053, 12>>,
     <<3597530, 417978335, 12>>, <<392052, 230723865, 11>>,
     <<427785, 348932318, 11>>, <<4661200, 83843948, 12>>,
     <<5064172, 2514685, 12>>, <<5481905, 338284403, 12>>,
     <<5910679, 868470234, 12>>, <<36671251, 300995277, 13>>,
     <<3298906, 876122264, 12>>, <<29671729, 966294515, 13>>,
     <<26860787, 848193104, 13>>, <<24734404, 618648528, 13>>,
     <<2348279, 699944984, 12>>, <<2324960, 108968997, 12>>,
     <<24064774, 557764963, 13>>, <<2582814, 838508459, 12>>,
     <<2836111, 852334283, 12>>, <<31475168, 846565116, 13>>,
     <<35011524, 582502593, 13>>, <<38850280, 891266143, 13>>,
     <<4290497, 774841512, 12>>, <<471139, 504320473, 11>>,
     <<5143282, 400766885, 12>>, <<5582900, 145196104, 12>>,
     <<32982973, 400465685, 13>>, <<2899926, 880285851, 12>>,
     <<25313562, 392890135, 13>>, <<22083815, 412482772, 13>>,
     <<19544402, 220486068, 13>>, <<1799518, 412234758, 12>>,
     <<17700962, 130610505, 13>>, <<18721482, 280317912, 13>>,
     <<20863180, 651435414, 13>>, <<23822521, 443888095, 13>>,
     <<2733098, 148020329, 12>>, <<3119873, 941300055, 12>>,
     <<3530203, 402661456, 12>>, <<3956112, 846828259, 12>>,
     <<4392360, 242736633, 12>>, <<4835376, 453383591, 12>>,
     <<52826255, 707738965, 13>>, <<29821742, 695062744, 13>>,
     <<2555579, 680839105, 12>>, <<21482433, 303471485, 13>>,
     <<17746088, 559225607, 13>>, <<14617920, 620078032, 13>>,
     <<12568927, 891811436, 13>>, <<12162130, 120158902, 13>>,
     <<13547025, 488999038, 13>>, <<16270243, 754933517, 13>>,
     <<19782620, 99205067, 13>>, <<23730980, 455218923, 13>>,
     <<27924701, 307712753, 13>>, <<32261173, 308877887, 13>>,
     <<36682, 78884658, 10>>, <<41151877, 40712925, 13>>,
     <<4564726, 364661295, 12>>, <<50151789, 87651605, 13>>,
     <<2737203, 719210459, 12>>, <<229073, 368220208, 11>>,
     <<1850926, 973060342, 12>>, <<1425487, 898058931, 12>>,
     <<10339043, 280442825, 13>>, <<7341426, 603099651, 13>>,
     <<6657637, 135563591, 13>>, <<8843089, 730123776, 13>>,
     <<12467882, 661254878, 13>>, <<1660998, 141910505, 12>>,
     <<2095834, 509197506, 12>>, <<2539973, 169724037, 12>>,
     <<2988442, 311554532, 12>>, <<34386567, 15279543, 13>>,
     <<38890587, 428084086, 13>>, <<4338578, 332043695, 12>>,
     <<4786389, 905128942, 12>>, <<2583795, 734661086, 12>>,
     <<21352495, 33547707, 13>>, <<16854903, 234011806, 13>>,
     <<12350593, 487723686, 13>>, <<785006, 675210277, 12>>,
     <<34033800, 501492647, 14>>, <<15950903, 549245817, 14>>,
     <<5876281, 350069539, 13>>, <<1036628, 911396576, 12>>,
     <<1487089, 736962541, 12>>, <<1937225, 624104787, 12>>,
     <<23863, 618791228, 10>>, <<28340430, 284501917, 13>>,
     <<3279870, 883178172, 12>>, <<37234571, 46861347, 13>>,
     <<4164403, 849225629, 12>>, <<4602293, 150103746, 12>>,
     <<2538657, 848538047, 12>>, <<21134409, 270200003, 13>>,
     <<16911158, 532791344, 13>>, <<12764569, 538796848, 13>>,
     <<8824294, 62115947, 13>>, <<5571133, 263638931, 13>>,
     <<47516297, 663865555, 14>>, <<7246652, 231548716, 13>>,
     <<10989036, 837194335, 13>>, <<15070314, 451376537, 13>>,
     <<19268306, 5915247, 13>>, <<23511448, 404331036, 13>>,
     <<27769102, 812851183, 13>>, <<3202483, 746569571, 12>>,
     <<36268043, 342061965, 13>>, <<40490748, 214138207, 13>>,
     <<446862, 153924783, 11>>, <<26074337, 6629585, 13>>,
     <<22292393, 453430727, 13>>, <<18662565, 703675705, 13>>,
     <<1530986, 676278326, 12>>, <<1247514, 246789814, 12>>,
     <<1059528, 347853778, 12>>, <<102188, 616220521, 11>>,
     <<11495642, 402622605, 13>>, <<13976563, 834192864, 13>>,
     <<17140688, 355152438, 13>>, <<20668886, 974690736, 13>>,
     <<24394646, 755318668, 13>>, <<2822978, 478038032, 12>>,
     <<32124250, 309198665, 13>>, <<36047185, 501328913, 13>>,
     <<39977888, 787217953, 13>>, <<43901278, 725484035, 13>>,
     <<27816656, 402700396, 13>>, <<24632911, 158968604, 13>>,
     <<2170233, 165856245, 12>>, <<19154767, 287408436, 13>>,
     <<1717277, 595403737, 12>>, <<15976547, 889163705, 13>>,
     <<15750736, 168659212, 13>>, <<1653592, 524843202, 12>>,
     <<18199236, 336088982, 13>>, <<2052322, 406049705, 12>>,
     <<2330407, 53271618, 12>>, <<2638924, 210395134, 12>>,
     <<2967427, 774492783, 12>>, <<33089026, 7228185, 13>>,
     <<3658565, 324400532, 12>>, <<4013045, 861100887, 12>>,
     <<4369868, 705445995, 12>>, <<3043243, 358975377, 12>>,
     <<27859050, 114286124, 13>>, <<2557477, 863339721, 12>>,
     <<23674107, 401249607, 13>>, <<2226407, 543861679, 12>>,
     <<214477, 716096237, 11>>, <<21296937, 331848135, 13>>,
     <<21825962, 897129075, 13>>, <<22985978, 719262357, 13>>,
     <<2468397, 890991609, 12>>, <<2681186, 753258968, 12>>,
     <<2926840, 42190101, 12>>, <<31968978, 918026623, 13>>,
     <<34846882, 167044196, 13>>, <<3785070, 99147928, 12>>,
     <<4094089, 244633916, 12>>, <<4408667, 586317113, 12>>,
     <<33718235, 295486857, 13>>, <<31700954, 832524103, 13>>,
     <<29958288, 871863138, 13>>, <<28549109, 793012926, 13>>,
     <<27531388, 572502974, 13>>, <<26954208, 944889165, 13>>,
     <<26848584, 916061372, 13>>, <<27220466, 59630767, 13>>,
     <<28049288, 11046306, 13>>, <<2929283, 496537775, 12>>,
     <<30895935, 306975744, 13>>, <<32799297, 176089467, 13>>,
     <<34945985, 483740337, 13>>, <<37284952, 711002866, 13>>,
     <<3977224, 339315188, 12>>, <<4237079, 772910192, 12>>,
     <<4504960, 44324747, 12>> >>,
    <<
     <<4985413, 452807653, 12>>, <<4723354, 260020307, 12>>,
     <<4504282, 175931235, 12>>, <<4334946, 175226667, 12>>,
     <<4221504, 428907731, 12>>, <<4168631, 759031515, 12>>,
     <<4178677, 238167806, 12>>, <<4251185, 731643814, 12>>,
     <<4382993, 513029587, 12>>, <<45688542, 822064865, 13>>,
     <<48023307, 505043385, 13>>, <<5076646, 802714108, 12>>,
     <<5385311, 513904897, 12>>, <<5722474, 131617589, 12>>,
     <<6083061, 328975904, 12>>, <<6462774, 615043229, 12>>,
     <<6858014, 643858088, 12>>, <<451279, 179778835, 11>>,
     <<4228283, 379116524, 12>>, <<3987713, 943046738, 12>>,
     <<37997445, 9943067, 13>>, <<36726898, 999171635, 13>>,
     <<36131311, 465948966, 13>>, <<3624464, 443990373, 12>>,
     <<37060270, 669681568, 13>>, <<38532747, 95863883, 13>>,
     <<40589092, 539714684, 13>>, <<4314372, 390979566, 12>>,
     <<4611115, 585476673, 12>>, <<4941380, 981459359, 12>>,
     <<5298527, 568636518, 12>>, <<5677059, 252292394, 12>>,
     <<607250, 374345408, 11>>, <<6481239, 972416392, 12>>,
     <<40573691, 11162996, 13>>, <<37474843, 284997614, 13>>,
     <<3481493, 87813206, 12>>, <<3270534, 432948981, 12>>,
     <<3126082, 414231638, 12>>, <<30577814, 76966647, 13>>,
     <<30708089, 784681515, 13>>, <<3164143, 909361463, 12>>,
     <<33309254, 381091127, 13>>, <<3560642, 418051548, 12>>,
     <<38417390, 286649147, 13>>, <<4163470, 681219985, 12>>,
     <<4516749, 927637867, 12>>, <<4894280, 321348477, 12>>,
     <<529034, 741725506, 11>>, <<5700507, 943760478, 12>>,
     <<6121290, 910225883, 12>>, <<3625806, 98405035, 12>>,
     <<32873491, 667541675, 13>>, <<29909574, 26888426, 13>>,
     <<2750817, 928226441, 12>>, <<2583097, 891922581, 12>>,
     <<25026839, 416821863, 13>>, <<25180820, 566217512, 13>>,
     <<262758, 533950061, 11>>, <<2820096, 441850942, 12>>,
     <<30798198, 774214707, 13>>, <<33909840, 894511094, 13>>,
     <<37403304, 934858584, 13>>, <<4117640, 496217435, 12>>,
     <<4515334, 272977338, 12>>, <<4927843, 398413114, 12>>,
     <<5351046, 465270859, 12>>, <<5781837, 62371906, 12>>,
     <<3227846, 285930342, 12>>, <<28579915, 397969853, 13>>,
     <<2525339, 549377591, 12>>, <<22472324, 516881117, 13>>,
     <<20466365, 598823716, 13>>, <<19480554, 22671195, 13>>,
     <<196707, 22104062, 11>>, <<2100457, 664809153, 12>>,
     <<23284337, 35410244, 13>>, <<26261288, 261912755, 13>>,
     <<29722073, 263073466, 13>>, <<3351164, 68456474, 12>>,
     <<37524273, 482281233, 13>>, <<4168870, 2646477, 12>>,
     <<4595612, 817548171, 12>>, <<5029216, 815758467, 12>>,
     <<5467166, 822856747, 12>>, <<28776069, 418604247, 13>>,
     <<24755827, 291999267, 13>>, <<21013407, 621559063, 13>>,
     <<1773612, 649558004, 12>>, <<152361, 970834406, 11>>,
     <<13944564, 984954063, 13>>, <<1419775, 662151973, 12>>,
     <<15921780, 166442377, 13>>, <<1871157, 57034849, 12>>,
     <<2216375, 686125169, 12>>, <<26010173, 833995727, 13>>,
     <<3009334, 966857218, 12>>, <<34321435, 503312164, 13>>,
     <<38638759, 584826703, 13>>, <<4300968, 665116299, 12>>,
     <<47409985, 230672255, 13>>, <<5182210, 473938677, 12>>,
     <<25946056, 707168837, 13>>, <<2165233, 556230215, 12>>,
     <<1749550, 551995815, 12>>, <<13616347, 357397453, 13>>,
     <<10346574, 579714868, 13>>, <<8439172, 427017465, 13>>,
     <<8831412, 116037502, 13>>, <<11285309, 901627204, 13>>,
     <<14805258, 639909248, 13>>, <<18795916, 992707794, 13>>,
     <<2300663, 616730665, 12>>, <<2732794, 816592378, 12>>,
     <<3170598, 527708422, 12>>, <<36110783, 946529896, 13>>,
     <<4052365, 594232734, 12>>, <<4493163, 238000005, 12>>,
     <<4932478, 129962855, 12>>, <<24028109, 456269567, 13>>,
     <<19615209, 250867147, 13>>, <<1520977, 385474933, 12>>,
     <<10840506, 683479575, 13>>, <<6603337, 271303302, 13>>,
     <<31302305, 69885523, 14>>, <<4023642, 393788879, 13>>,
     <<7922189, 723757917, 13>>, <<1222243, 676901776, 12>>,
     <<16608332, 504045288, 13>>, <<21018130, 943956244, 13>>,
     <<25430329, 675815005, 13>>, <<2983408, 687626834, 12>>,
     <<3422225, 173895336, 12>>, <<38589125, 110121263, 13>>,
     <<4292957, 85371249, 12>>, <<4723859, 823536659, 12>>,
     <<23249633, 199025698, 13>>, <<18991179, 46147995, 13>>,
     <<14741268, 421217715, 13>>, <<10531326, 553034235, 13>>,
     <<6465306, 883856091, 13>>, <<3191723, 358857367, 13>>,
     <<40204639, 919816645, 14>>, <<7727447, 52656901, 13>>,
     <<11861894, 494928536, 13>>, <<16090149, 465179409, 13>>,
     <<20344957, 363234323, 13>>, <<2460275, 907923617, 12>>,
     <<2885169, 724568613, 12>>, <<3308399, 735333731, 12>>,
     <<37293511, 435543746, 13>>, <<4147474, 476416941, 12>>,
     <<4562240, 204485009, 12>>, <<2372328, 468801336, 12>>,
     <<19913648, 380991058, 13>>, <<16248001, 764645433, 13>>,
     <<12867868, 128090713, 13>>, <<1008166, 787645626, 12>>,
     <<8507990, 111000568, 13>>, <<8827068, 475147856, 13>>,
     <<10872688, 42863017, 13>>, <<1389769, 849684511, 12>>,
     <<17391299, 781519565, 13>>, <<21113445, 98580587, 13>>,
     <<24952191, 334779154, 13>>, <<28850255, 546452067, 13>>,
     <<32774944, 83308887, 13>>, <<3670549, 404599042, 12>>,
     <<4062732, 248084613, 12>>, <<4452919, 747493545, 12>>,
     <<2537893, 366615413, 12>>, <<22190434, 542934645, 13>>,
     <<19271996, 78682241, 13>>, <<1677895, 189324996, 12>>,
     <<1493728, 591834516, 12>>, <<14014088, 99614412, 13>>,
     <<14193253, 912239286, 13>>, <<15435842, 530868244, 13>>,
     <<17513103, 162418395, 13>>, <<20162445, 672676236, 13>>,
     <<23180507, 555434965, 13>>, <<26431886, 34693175, 13>>,
     <<29829904, 602890942, 13>>, <<333183, 454812955, 11>>,
     <<36859372, 472491727, 13>>, <<40426272, 82202427, 13>>,
     <<4399916, 272642928, 12>>, <<2800733, 752570203, 12>>,
     <<254604, 231902762, 11>>, <<2322778, 503843132, 12>>,
     <<214185, 934885062, 11>>, <<2015553, 222286676, 12>>,
     <<19550275, 281556258, 13>>, <<1966615, 252584894, 12>>,
     <<20490481, 568917035, 13>>, <<21940485, 153417617, 13>>,
     <<23897278, 621619166, 13>>, <<2624067, 335886986, 12>>,
     <<28868154, 52556433, 13>>, <<3169942, 800913496, 12>>,
     <<34673856, 329231244, 13>>, <<37745968, 234562365, 13>>,
     <<40881304, 327065513, 13>>, <<4405318, 518085971, 12>>,
     <<3136425, 911901817, 12>>, <<2939349, 347607011, 12>>,
     <<27718933, 325082717, 13>>, <<2640532, 186403858, 12>>,
     <<2551481, 160628738, 12>>, <<25096642, 652532632, 13>>,
     <<2517625, 113250367, 12>>, <<25748671, 986141917, 13>>,
     <<2677987, 933276719, 12>>, <<28215286, 930793973, 13>>,
     <<2999093, 179076225, 12>>, <<32042885, 711792237, 13>>,
     <<3431295, 840483355, 12>>, <<36751019, 235914678, 13>>,
     <<3931514, 437567886, 12>>, <<4197070, 220887269, 12>>,
     <<4468909, 148165583, 12>> >>,
    <<
     <<47996350, 880310865, 13>>, <<4519062, 193759201, 12>>,
     <<4282711, 523817603, 12>>, <<40984572, 56424695, 13>>,
     <<3973714, 701418093, 12>>, <<3914283, 350937966, 12>>,
     <<39231809, 772973083, 13>>, <<3999944, 565948378, 12>>,
     <<414074, 173559501, 11>>, <<4339235, 360185336, 12>>,
     <<458778, 954463257, 11>>, <<4878564, 305421418, 12>>,
     <<52042543, 25001405, 13>>, <<5558454, 984359745, 12>>,
     <<59357572, 93769895, 13>>, <<6331687, 314977272, 12>>,
     <<6742579, 648214145, 12>>, <<4340000, 142081583, 12>>,
     <<40344405, 351287623, 13>>, <<37736105, 577225862, 13>>,
     <<3567633, 638398631, 12>>, <<34266422, 330074056, 13>>,
     <<33589777, 999840817, 13>>, <<3369129, 398013885, 12>>,
     <<34564016, 68533424, 13>>, <<36151311, 866326987, 13>>,
     <<3836311, 47221041, 12>>, <<4109664, 720632734, 12>>,
     <<4425276, 432527088, 12>>, <<4774467, 653770062, 12>>,
     <<5150061, 808359198, 12>>, <<55463026, 494614005, 13>>,
     <<5958633, 60146513, 12>>, <<6383449, 424751966, 12>>,
     <<39011472, 259955344, 13>>, <<3567525, 588576174, 12>>,
     <<3277730, 295469084, 12>>, <<30447137, 837083756, 13>>,
     <<2882595, 243180378, 12>>, <<28039086, 959725746, 13>>,
     <<2815753, 394395504, 12>>, <<29170130, 125386204, 13>>,
     <<30988217, 864477397, 13>>, <<33478840, 855077565, 13>>,
     <<36501873, 604326356, 13>>, <<3993323, 328584611, 12>>,
     <<4367286, 301806434, 12>>, <<4764378, 880591772, 12>>,
     <<5178788, 769272257, 12>>, <<5606131, 500220194, 12>>,
     <<60430653, 864433225, 13>>, <<34910990, 126300626, 13>>,
     <<31263882, 204451124, 13>>, <<2802181, 197422546, 12>>,
     <<25346388, 866524258, 13>>, <<2343697, 594367488, 12>>,
     <<22492523, 73734587, 13>>, <<2263551, 975404961, 12>>,
     <<23846217, 937231445, 13>>, <<2597419, 894137067, 12>>,
     <<2881430, 179945644, 12>>, <<3217496, 90408917, 12>>,
     <<35906029, 962020702, 13>>, <<39898813, 735829717, 13>>,
     <<4407675, 14171194, 12>>, <<4838585, 74789753, 12>>,
     <<527873, 968170299, 11>>, <<5725288, 331918074, 12>>,
     <<31213873, 890057553, 13>>, <<27236996, 513146223, 13>>,
     <<23593677, 854969833, 13>>, <<2047077, 363273203, 12>>,
     <<18145592, 832652371, 13>>, <<16954150, 115223526, 13>>,
     <<1713664, 618218201, 12>>, <<18652518, 511377193, 13>>,
     <<21215738, 976320317, 13>>, <<24496221, 957331436, 13>>,
     <<28240578, 753167197, 13>>, <<32282448, 913573835, 13>>,
     <<36517137, 418991133, 13>>, <<40878112, 632713264, 13>>,
     <<4532169, 873694587, 12>>, <<4981797, 318511442, 12>>,
     <<5434542, 604984702, 12>>, <<2808128, 24352492, 12>>,
     <<23791678, 557085556, 13>>, <<19715449, 116132647, 13>>,
     <<1602751, 635436676, 12>>, <<1307104, 102552484, 12>>,
     <<11435889, 61730686, 13>>, <<11693644, 493056145, 13>>,
     <<13737753, 306537998, 13>>, <<16930216, 740116653, 13>>,
     <<20742915, 392256973, 13>>, <<24886723, 189748964, 13>>,
     <<29214543, 622949473, 13>>, <<336482, 93447613, 11>>,
     <<3814297, 5651406, 12>>, <<4267107, 368287573, 12>>,
     <<4721387, 990465326, 12>>, <<5175784, 178830102, 12>>,
     <<2572142, 230488435, 12>>, <<21214053, 881604896, 13>>,
     <<1677361, 442912417, 12>>, <<12487402, 931906474, 13>>,
     <<8606028, 261581712, 13>>, <<5993569, 882208553, 13>>,
     <<6449608, 654514658, 13>>, <<9543314, 654640002, 13>>,
     <<1357368, 769597095, 12>>, <<17913646, 672158552, 13>>,
     <<223768, 838003742, 11>>, <<2689434, 920934568, 12>>,
     <<31434250, 259081377, 13>>, <<35979066, 443989377, 13>>,
     <<40517527, 742932034, 13>>, <<45041340, 96278855, 13>>,
     <<4954366, 918143538, 12>>, <<2436070, 802801983, 12>>,
     <<19845743, 234099768, 13>>, <<15317963, 904347355, 13>>,
     <<10780554, 756015388, 13>>, <<6236927, 686805342, 13>>,
     <<16950829, 386508426, 14>>, <<28693949, 369878754, 14>>,
     <<7413914, 223535579, 13>>, <<11956306, 377684732, 13>>,
     <<1649153, 8103437, 12>>, <<2101629, 674910417, 12>>,
     <<25527419, 225104095, 13>>, <<3002162, 626824585, 12>>,
     <<34495496, 242339555, 13>>, <<38945411, 102518306, 13>>,
     <<4336751, 348803067, 12>>, <<47757662, 240653635, 13>>,
     <<24168910, 828438825, 13>>, <<1993758, 810991599, 12>>,
     <<15765851, 345871342, 13>>, <<11736225, 205780545, 13>>,
     <<8084518, 65420782, 13>>, <<5624134, 103732175, 13>>,
     <<6053873, 571711124, 13>>, <<8966642, 20973521, 13>>,
     <<12757742, 503390643, 13>>, <<1683718, 219252647, 12>>,
     <<21029538, 899521026, 13>>, <<2526939, 681136548, 12>>,
     <<29526248, 94415887, 13>>, <<3378294, 165164774, 12>>,
     <<38028, 165910704, 10>>, <<4225338, 144804588, 12>>,
     <<4645140, 194502605, 12>>, <<25172818, 642944517, 13>>,
     <<2147084, 176907609, 12>>, <<1797550, 153703934, 12>>,
     <<14848900, 386807557, 13>>, <<12387239, 531122102, 13>>,
     <<1105421, 67846381, 12>>, <<11262557, 824869245, 13>>,
     <<1293745, 683889883, 12>>, <<15609733, 301405997, 13>>,
     <<18853582, 850790508, 13>>, <<2241417, 268635523, 12>>,
     <<2615320, 531056363, 12>>, <<29993820, 303320595, 13>>,
     <<3389049, 812719598, 12>>, <<37814186, 272987504, 13>>,
     <<4174485, 548979795, 12>>, <<4566760, 678151487, 12>>,
     <<27240282, 171995536, 13>>, <<24172501, 379480063, 13>>,
     <<21407965, 20658667, 13>>, <<19091047, 497488182, 13>>,
     <<174112, 134055098, 11>>, <<16570070, 736460557, 13>>,
     <<16697919, 768793847, 13>>, <<17773437, 336805453, 13>>,
     <<19638196, 777789985, 13>>, <<22087583, 701362787, 13>>,
     <<24942579, 231457144, 13>>, <<28070936, 242935545, 13>>,
     <<31381129, 190437046, 13>>, <<34810502, 517974446, 13>>,
     <<38315416, 416306075, 13>>, <<4186448, 559287769, 12>>,
     <<45434216, 894123765, 13>>, <<3015278, 39759807, 12>>,
     <<2770236, 525471303, 12>>, <<2557523, 847865293, 12>>,
     <<23867659, 889075567, 13>>, <<2268207, 226808895, 12>>,
     <<22107593, 134704875, 13>>, <<2219402, 385122244, 12>>,
     <<22933563, 868349593, 13>>, <<242638, 542626972, 11>>,
     <<2608991, 473272486, 12>>, <<28309468, 126500165, 13>>,
     <<3082969, 395891516, 12>>, <<33573779, 413025536, 13>>,
     <<36481023, 739907164, 13>>, <<3950427, 729400968, 12>>,
     <<4260687, 186195283, 12>>, <<4575991, 416338199, 12>>,
     <<33691115, 178532928, 13>>, <<31785111, 812484024, 13>>,
     <<3017400, 89289337, 12>>, <<2891485, 234137745, 12>>,
     <<2806096, 149943843, 12>>, <<276537, 618652998, 11>>,
     <<27714739, 796953304, 13>>, <<28240601, 819014773, 13>>,
     <<2920404, 413543082, 12>>, <<3055973, 206355838, 12>>,
     <<3225267, 952232778, 12>>, <<34225916, 378063557, 13>>,
     <<36425730, 125905384, 13>>, <<38804329, 990542324, 13>>,
     <<41320, 607310925, 10>>, <<4393979, 454145348, 12>>,
     <<466326, 299370418, 11>> >>,
    <<
     <<4930855, 385379572, 12>>, <<4655178, 670278214, 12>>,
     <<4422236, 292143317, 12>>, <<4239307, 223400869, 12>>,
     <<4113242, 208331114, 12>>, <<40494700, 683194656, 13>>,
     <<4050989, 837521295, 12>>, <<4117727, 923672523, 12>>,
     <<4246554, 625228571, 12>>, <<4431951, 989179228, 12>>,
     <<4667028, 978451348, 12>>, <<4944507, 34900547, 12>>,
     <<5257437, 853167103, 12>>, <<55996021, 696305825, 13>>,
     <<5965654, 169422925, 12>>, <<6351107, 116063293, 12>>,
     <<675223, 976875901, 11>>, <<44671247, 613013375, 13>>,
     <<4167811, 91926936, 12>>, <<3911777, 792190104, 12>>,
     <<37083121, 317798004, 13>>, <<35666594, 936365145, 13>>,
     <<34945034, 878740557, 13>>, <<3496227, 185740905, 12>>,
     <<3571721, 839103973, 12>>, <<3716418, 211178156, 12>>,
     <<3922521, 437503782, 12>>, <<418075, 459747824, 11>>,
     <<4481855, 864300248, 12>>, <<4817483, 285489709, 12>>,
     <<51805723, 953339275, 13>>, <<5565345, 912140228, 12>>,
     <<5967158, 538834874, 12>>, <<6382291, 844591291, 12>>,
     <<40225249, 307033387, 13>>, <<36967199, 562239334, 13>>,
     <<3413522, 664242409, 12>>, <<31847431, 775473297, 13>>,
     <<302308, 871102244, 11>>, <<29398733, 780005127, 13>>,
     <<2941868, 681214008, 12>>, <<30289037, 673315693, 13>>,
     <<3193930, 750926701, 12>>, <<34255039, 856773724, 13>>,
     <<37109172, 761652258, 13>>, <<40384354, 957979203, 13>>,
     <<4398266, 907366513, 12>>, <<4782672, 665082976, 12>>,
     <<5185686, 466202603, 12>>, <<5602736, 745352851, 12>>,
     <<6030299, 247375774, 12>>, <<36043241, 699624205, 13>>,
     <<32491243, 938138973, 13>>, <<2933781, 384904848, 12>>,
     <<2673014, 968137738, 12>>, <<24845254, 336592825, 13>>,
     <<23858163, 421650065, 13>>, <<23881981, 27106394, 13>>,
     <<24913773, 854077176, 13>>, <<26836125, 598559447, 13>>,
     <<2947274, 448415592, 12>>, <<3264755, 61313445, 12>>,
     <<3621501, 34164405, 12>>, <<4006542, 777109758, 12>>,
     <<4411922, 128881066, 12>>, <<4831908, 723878176, 12>>,
     <<5262333, 979750169, 12>>, <<5700101, 355345902, 12>>,
     <<32229801, 488901967, 13>>, <<2836291, 452583999, 12>>,
     <<2483388, 573103097, 12>>, <<21815224, 540465356, 13>>,
     <<19551303, 227691756, 13>>, <<18328541, 634974113, 13>>,
     <<1835840, 375793991, 12>>, <<19635126, 610367479, 13>>,
     <<21940195, 673420176, 13>>, <<24987272, 4122124, 13>>,
     <<28535183, 744620804, 13>>, <<3241455, 957970894, 12>>,
     <<365138, 395800365, 11>>, <<4076001, 509442279, 12>>,
     <<4510429, 106854163, 12>>, <<495129, 165066167, 11>>,
     <<5396155, 694194658, 12>>, <<2893248, 521601181, 12>>,
     <<24757816, 836404495, 13>>, <<2081558, 902174971, 12>>,
     <<17276683, 997277732, 13>>, <<14450341, 23561248, 13>>,
     <<12824060, 974625047, 13>>, <<12864902, 741283222, 13>>,
     <<14558770, 402229522, 13>>, <<174275, 400349533, 11>>,
     <<2099055, 245554329, 12>>, <<2494650, 367108879, 12>>,
     <<2912921, 773501761, 12>>, <<33446454, 912995796, 13>>,
     <<3784427, 490694826, 12>>, <<4228899, 681590182, 12>>,
     <<4675808, 289761319, 12>>, <<5123535, 289461232, 12>>,
     <<26346992, 8240054, 13>>, <<21936374, 146659773, 13>>,
     <<1761904, 967228458, 12>>, <<13500057, 35372224, 13>>,
     <<9847196, 132441118, 13>>, <<7401058, 678603802, 13>>,
     <<7468179, 520078769, 13>>, <<9997954, 339874483, 13>>,
     <<13683210, 417344442, 13>>, <<178152, 998590437, 11>>,
     <<22138593, 875490506, 13>>, <<2655210, 153054412, 12>>,
     <<31008841, 918109906, 13>>, <<35483406, 292031777, 13>>,
     <<39960078, 43847643, 13>>, <<4442787, 947761047, 12>>,
     <<488782, 637047788, 11>>, <<2469877, 831559753, 12>>,
     <<20229850, 828997578, 13>>, <<1575320, 595350926, 12>>,
     <<11278939, 224170044, 13>>, <<6835253, 352966545, 13>>,
     <<2625467, 830473594, 13>>, <<27991503, 103978556, 14>>,
     <<7038801, 535200638, 13>>, <<11485339, 411489583, 13>>,
     <<1596008, 97830248, 12>>, <<2043653, 939730972, 12>>,
     <<2490495, 103357689, 12>>, <<293594, 519151178, 11>>,
     <<33795379, 98369685, 13>>, <<3820843, 703736347, 12>>,
     <<4259436, 210219357, 12>>, <<4694875, 251214776, 12>>,
     <<24180799, 357834894, 13>>, <<1992714, 403655527, 12>>,
     <<15700130, 142165995, 13>>, <<11548852, 860428751, 13>>,
     <<7620610, 905962419, 13>>, <<4561675, 674298067, 13>>,
     <<46573024, 518266925, 14>>, <<7792039, 696791725, 13>>,
     <<1173759, 13376976, 12>>, <<15894305, 653370973, 13>>,
     <<20123304, 276200647, 13>>, <<2437754, 675399423, 12>>,
     <<28635559, 887789395, 13>>, <<3288498, 172234271, 12>>,
     <<37117234, 540127283, 13>>, <<4132544, 42130673, 12>>,
     <<455034, 776666471, 11>>, <<2486394, 567771896, 12>>,
     <<210888, 493026827, 11>>, <<1747635, 201730729, 12>>,
     <<14168124, 691420821, 13>>, <<11446662, 796730707, 13>>,
     <<982461, 442543014, 12>>, <<9866070, 48616865, 13>>,
     <<11553021, 125722844, 13>>, <<14310970, 439440705, 13>>,
     <<17638012, 135009087, 13>>, <<21260424, 230957037, 13>>,
     <<25040898, 792925923, 13>>, <<28907086, 943586305, 13>>,
     <<3281751, 507627896, 12>>, <<36746156, 585969006, 13>>,
     <<4067515, 354768387, 12>>, <<445911, 634677988, 11>>,
     <<2665584, 24877654, 12>>, <<234985, 694935375, 11>>,
     <<20614138, 506938393, 13>>, <<18146337, 497887316, 13>>,
     <<1629650, 931987935, 12>>, <<15298215, 520732635, 13>>,
     <<15322586, 248163168, 13>>, <<1636497, 66428365, 12>>,
     <<18248486, 896446923, 13>>, <<2073953, 806928593, 12>>,
     <<2363931, 628332548, 12>>, <<2680656, 777876268, 12>>,
     <<3014703, 910904435, 12>>, <<33598094, 346861817, 13>>,
     <<37117070, 648432077, 13>>, <<40673761, 456902816, 13>>,
     <<4424577, 743642506, 12>>, <<29353658, 266565703, 13>>,
     <<2682161, 202196696, 12>>, <<2459753, 781210687, 12>>,
     <<22782216, 162272193, 13>>, <<21487696, 211314533, 13>>,
     <<20816954, 944787144, 13>>, <<2083307, 500911386, 12>>,
     <<21534451, 411861205, 13>>, <<22855478, 316113235, 13>>,
     <<24692120, 722432833, 13>>, <<26932511, 179223684, 13>>,
     <<29476653, 5769417, 13>>, <<32243403, 38736483, 13>>,
     <<35169886, 533830772, 13>>, <<3820811, 872804467, 12>>,
     <<4132133, 93340268, 12>>, <<4448089, 180421413, 12>>,
     <<32733466, 49525596, 13>>, <<3076285, 707060997, 12>>,
     <<2908072, 923120489, 12>>, <<2774784, 809924271, 12>>,
     <<2682268, 150185055, 12>>, <<2635248, 34191805, 12>>,
     <<26363703, 526632003, 13>>, <<2685569, 872709209, 12>>,
     <<2780086, 656720398, 12>>, <<29151218, 737036907, 13>>,
     <<308480, 20190542, 11>>, <<3283051, 620347728, 12>>,
     <<3504201, 212241685, 12>>, <<37432540, 277306207, 13>>,
     <<39959621, 782005056, 13>>, <<425877, 207179667, 11>>,
     <<4528722, 345366302, 12>> >>,
    <<
     <<4981753, 479054027, 12>>, <<4685199, 455817563, 12>>,
     <<442895, 634478933, 11>>, <<4220617, 38011035, 12>>,
     <<4067739, 520304295, 12>>, <<3976859, 727166958, 12>>,
     <<39523338, 715506816, 13>>, <<39954042, 627818235, 13>>,
     <<4103908, 609564041, 12>>, <<4272779, 11820601, 12>>,
     <<4495083, 994394155, 12>>, <<4763171, 50624528, 12>>,
     <<5069564, 967761673, 12>>, <<5407502, 282310036, 12>>,
     <<5771150, 912800885, 12>>, <<6155624, 325010751, 12>>,
     <<6556889, 444349344, 12>>, <<4531774, 565911902, 12>>,
     <<4210975, 993695213, 12>>, <<39302355, 423857093, 13>>,
     <<36990199, 612103934, 13>>, <<3527346, 8679496, 12>>,
     <<3424368, 346296372, 12>>, <<3396449, 118365169, 12>>,
     <<3445441, 566268617, 12>>, <<35681312, 223452483, 13>>,
     <<3757188, 190245253, 12>>, <<4003040, 883638683, 12>>,
     <<4295713, 741381199, 12>>, <<4626043, 403668466, 12>>,
     <<4986218, 925295375, 12>>, <<536986, 44139264, 11>>,
     <<5771868, 15885978, 12>>, <<61881942, 147315685, 13>>,
     <<4102935, 831811747, 12>>, <<37555445, 443423223, 13>>,
     <<34465398, 319996953, 13>>, <<3187560, 240209453, 12>>,
     <<29919899, 327660437, 13>>, <<2873070, 153553274, 12>>,
     <<2840595, 651875981, 12>>, <<28975136, 768103835, 13>>,
     <<303873, 947055726, 11>>, <<3253153, 155305746, 12>>,
     <<3527194, 628811865, 12>>, <<38478379, 100155335, 13>>,
     <<4204066, 150033541, 12>>, <<4587174, 210705141, 12>>,
     <<4990501, 162806683, 12>>, <<5409000, 395172598, 12>>,
     <<5838832, 196034782, 12>>, <<370279, 195691796, 11>>,
     <<33267828, 113960436, 13>>, <<29852854, 384158463, 13>>,
     <<2692084, 164022472, 12>>, <<2464984, 29480662, 12>>,
     <<2323820, 918660958, 12>>, <<2284796, 472670156, 12>>,
     <<23530535, 211122424, 13>>, <<25197980, 123882517, 13>>,
     <<27670689, 798287162, 13>>, <<30751895, 809722087, 13>>,
     <<34273933, 6636025, 13>>, <<3811013, 691611309, 12>>,
     <<4216960, 221794069, 12>>, <<4638792, 750674924, 12>>,
     <<5071910, 518175733, 12>>, <<5512958, 392219644, 12>>,
     <<3341848, 18694445, 12>>, <<2936533, 897913738, 12>>,
     <<2558734, 634571273, 12>>, <<22233634, 729648443, 13>>,
     <<1953127, 813272608, 12>>, <<17785265, 804421374, 13>>,
     <<17291041, 48757581, 13>>, <<18151955, 200449513, 13>>,
     <<20194158, 518724796, 13>>, <<2310363, 639659763, 12>>,
     <<2659318, 490644333, 12>>, <<3045910, 78403689, 12>>,
     <<34569606, 296379593, 13>>, <<38840730, 653528653, 13>>,
     <<4321788, 259037024, 12>>, <<47664274, 264248825, 13>>,
     <<5215400, 961032058, 12>>, <<30342831, 17134913, 13>>,
     <<26023036, 753653714, 13>>, <<21873728, 397393456, 13>>,
     <<18024505, 727044636, 13>>, <<14723363, 332984768, 13>>,
     <<12424127, 445456672, 13>>, <<11736704, 669201647, 13>>,
     <<12922223, 20402173, 13>>, <<15556428, 227818178, 13>>,
     <<19043582, 483464745, 13>>, <<22993685, 628850144, 13>>,
     <<27199622, 862318806, 13>>, <<31552311, 302422895, 13>>,
     <<3599094, 577942515, 12>>, <<40479053, 707021203, 13>>,
     <<4499302, 416974778, 12>>, <<4951636, 24078998, 12>>,
     <<27978849, 138027226, 13>>, <<2348234, 679775039, 12>>,
     <<19038481, 580383777, 13>>, <<14710242, 467490982, 13>>,
     <<1065553, 612935191, 12>>, <<7358357, 361920354, 13>>,
     <<6191924, 754688587, 13>>, <<8133843, 659401131, 13>>,
     <<11727806, 631588967, 13>>, <<1588473, 802288551, 12>>,
     <<20254571, 456523884, 13>>, <<24717260, 769622003, 13>>,
     <<292221, 536818155, 11>>, <<3374356, 734625731, 12>>,
     <<3826626, 307548145, 12>>, <<42779856, 33239475, 13>>,
     <<4727635, 794395418, 12>>, <<26518481, 564516815, 13>>,
     <<22023181, 402649584, 13>>, <<17514040, 389496706, 13>>,
     <<12994961, 58308938, 13>>, <<847134, 20415194, 12>>,
     <<3959279, 350062876, 13>>, <<8655675, 135804911, 14>>,
     <<5198223, 269978622, 13>>, <<9717301, 881436739, 13>>,
     <<14240431, 459701183, 13>>, <<18757206, 424004066, 13>>,
     <<2326290, 265127003, 12>>, <<2775375, 420056516, 12>>,
     <<32226167, 270481856, 13>>, <<36676487, 110386665, 13>>,
     <<4110089, 234432149, 12>>, <<45495326, 278767025, 13>>,
     <<26114307, 231879857, 13>>, <<2186353, 771558856, 12>>,
     <<1764375, 307347577, 12>>, <<13502597, 762887285, 13>>,
     <<9562864, 697959793, 13>>, <<6241045, 312040159, 13>>,
     <<4997806, 386949707, 13>>, <<7040646, 711289462, 13>>,
     <<10614047, 625141745, 13>>, <<14630721, 228905554, 13>>,
     <<18800937, 72827248, 13>>, <<2303252, 848033338, 12>>,
     <<2728718, 531900802, 12>>, <<315450, 939482193, 11>>,
     <<3579396, 405949649, 12>>, <<40024915, 771284022, 13>>,
     <<4423069, 626220275, 12>>, <<268142, 683156398, 11>>,
     <<23030492, 639616537, 13>>, <<19394440, 425535374, 13>>,
     <<16023217, 638370731, 13>>, <<13137506, 553307203, 13>>,
     <<11134159, 426815827, 13>>, <<1053691, 188769228, 12>>,
     <<11567482, 687427516, 13>>, <<13864946, 685115265, 13>>,
     <<16915321, 787310586, 13>>, <<20375836, 252459237, 13>>,
     <<24061380, 694085096, 13>>, <<27872978, 876168813, 13>>,
     <<31754560, 46089055, 13>>, <<35671825, 877737174, 13>>,
     <<39602031, 948358544, 13>>, <<4352883, 867639369, 12>>,
     <<28537005, 827193498, 13>>, <<253411, 869182334, 11>>,
     <<22388804, 217325724, 13>>, <<19802343, 247335596, 13>>,
     <<17753810, 576288977, 13>>, <<16453930, 172490154, 13>>,
     <<16090199, 519778369, 13>>, <<1672507, 838524353, 12>>,
     <<18252627, 763012304, 13>>, <<20469316, 53404582, 13>>,
     <<23171541, 669579656, 13>>, <<2620128, 936407128, 12>>,
     <<2944818, 966181159, 12>>, <<32837423, 881054165, 13>>,
     <<36317825, 70744057, 13>>, <<3985338, 832266185, 12>>,
     <<4341777, 469710799, 12>>, <<31112545, 471409894, 13>>,
     <<285184, 751133209, 11>>, <<2620353, 633585034, 12>>,
     <<24258533, 582731093, 13>>, <<22787152, 962269274, 13>>,
     <<2189146, 954592382, 12>>, <<21646756, 446375966, 13>>,
     <<22075631, 382339707, 13>>, <<23139064, 208555988, 13>>,
     <<2475153, 988663537, 12>>, <<26808403, 614905105, 13>>,
     <<29208570, 688209415, 13>>, <<3186588, 41165908, 12>>,
     <<34711520, 225643317, 13>>, <<37692075, 753228114, 13>>,
     <<40766311, 296670947, 13>>, <<4390209, 951964733, 12>>,
     <<343487, 877430088, 11>>, <<323070, 273003613, 11>>,
     <<30532201, 232721673, 13>>, <<2908190, 741650172, 12>>,
     <<28013499, 766524014, 13>>, <<2737666, 358669549, 12>>,
     <<27204578, 690495637, 13>>, <<2750671, 813350497, 12>>,
     <<2826659, 684904087, 12>>, <<2944563, 329145204, 12>>,
     <<30991164, 399161394, 13>>, <<3284513, 591426368, 12>>,
     <<34950825, 195517987, 13>>, <<3725674, 859289459, 12>>,
     <<39718196, 33858935, 13>>, <<4229725, 814715934, 12>>,
     <<4496210, 82516798, 12>> >>,
    <<
     <<4936111, 39729076, 12>>, <<4662164, 602834769, 12>>,
     <<4431013, 699839419, 12>>, <<4249875, 272442257, 12>>,
     <<4125514, 233358574, 12>>, <<40632609, 423724684, 13>>,
     <<4066024, 220004673, 12>>, <<4133671, 302123912, 12>>,
     <<426305, 740852129, 11>>, <<4448690, 676824053, 12>>,
     <<4683732, 474379624, 12>>, <<4960965, 602087965, 12>>,
     <<5273499, 270408157, 12>>, <<5615161, 511598247, 12>>,
     <<5980642, 122019952, 12>>, <<6365479, 463319909, 12>>,
     <<676596, 898155596, 11>>, <<4471231, 584324527, 12>>,
     <<4173783, 683340091, 12>>, <<3919733, 244708226, 12>>,
     <<37182971, 964217127, 13>>, <<3578607, 877875123, 12>>,
     <<35082061, 631976626, 13>>, <<35113382, 488252146, 13>>,
     <<35878082, 906774093, 13>>, <<3733034, 343231489, 12>>,
     <<39392737, 948620897, 13>>, <<4197335, 732145448, 12>>,
     <<4498047, 609446447, 12>>, <<4833142, 448623311, 12>>,
     <<5195611, 214880192, 12>>, <<557971, 419962139, 11>>,
     <<5980829, 865724046, 12>>, <<6395253, 756237241, 12>>,
     <<40252440, 628006057, 13>>, <<37014242, 127686043, 13>>,
     <<34204122, 273153725, 13>>, <<31939489, 787912453, 13>>,
     <<30345968, 574619797, 13>>, <<29534567, 253480814, 13>>,
     <<29570792, 948253998, 13>>, <<30451575, 864992906, 13>>,
     <<32106431, 632287936, 13>>, <<3442195, 944515254, 12>>,
     <<37272523, 77058822, 13>>, <<4054204, 346031479, 12>>,
     <<4413352, 819213332, 12>>, <<4797018, 250084178, 12>>,
     <<5199269, 149993017, 12>>, <<5615552, 629392004, 12>>,
     <<6042353, 168543979, 12>>, <<3605347, 1761825, 12>>,
     <<3252205, 296674505, 12>>, <<293923, 731829228, 11>>,
     <<26811223, 623119113, 13>>, <<2495392, 905015803, 12>>,
     <<23992262, 177307603, 13>>, <<2403545, 275235679, 12>>,
     <<25078247, 260495514, 13>>, <<27003662, 96768935, 13>>,
     <<2963760, 989097516, 12>>, <<32806369, 897536365, 13>>,
     <<36366119, 43859767, 13>>, <<4020817, 645733447, 12>>,
     <<4425348, 927606879, 12>>, <<4844499, 651897445, 12>>,
     <<527411, 8158396, 11>>, <<5711084, 645872296, 12>>,
     <<3221921, 466115963, 12>>, <<28372605, 386464666, 13>>,
     <<248684, 508359337, 11>>, <<21879794, 793768715, 13>>,
     <<1964974, 939797154, 12>>, <<18459839, 413392322, 13>>,
     <<18513891, 44858658, 13>>, <<19801631, 763094304, 13>>,
     <<22106567, 24318083, 13>>, <<25147164, 23916707, 13>>,
     <<28685964, 709233485, 13>>, <<32555556, 23996355, 13>>,
     <<36645209, 936143547, 13>>, <<40882198, 186258306, 13>>,
     <<4521776, 825141606, 12>>, <<49618118, 922061985, 13>>,
     <<5405883, 511574405, 12>>, <<2889666, 793034419, 12>>,
     <<2474004, 716749772, 12>>, <<20821571, 738703624, 13>>,
     <<173146, 611189611, 11>>, <<14530153, 293179014, 13>>,
     <<12949990, 865206944, 13>>, <<13023672, 422711393, 13>>,
     <<1472626, 339952856, 12>>, <<17588263, 921577716, 13>>,
     <<21139532, 992913987, 13>>, <<25083392, 328463083, 13>>,
     <<29254951, 491562574, 13>>, <<3356211, 632324463, 12>>,
     <<3795078, 846939097, 12>>, <<4238708, 193473922, 12>>,
     <<4684827, 481463481, 12>>, <<5131803, 537304007, 12>>,
     <<26281824, 597779737, 13>>, <<21884223, 12133257, 13>>,
     <<17584893, 121513935, 13>>, <<1349329, 771303871, 12>>,
     <<9886380, 670160733, 13>>, <<7512575, 808571595, 13>>,
     <<7632768, 789312313, 13>>, <<10158613, 429067534, 13>>,
     <<13825697, 268708827, 13>>, <<1794190, 559754456, 12>>,
     <<22252534, 405232686, 13>>, <<26655646, 503401276, 13>>,
     <<31103479, 869434004, 13>>, <<35570112, 21623795, 13>>,
     <<40039492, 881815686, 13>>, <<4450042, 186604214, 12>>,
     <<4894419, 698419972, 12>>, <<2460227, 855258079, 12>>,
     <<20139003, 288919757, 13>>, <<15669294, 283635058, 13>>,
     <<11204794, 400302073, 13>>, <<6779424, 769413088, 13>>,
     <<2641117, 819062463, 13>>, <<29485321, 379866554, 14>>,
     <<7149205, 727382291, 13>>, <<11580876, 5549976, 13>>,
     <<16046561, 603345988, 13>>, <<20516061, 894883055, 13>>,
     <<24978460, 396354326, 13>>, <<29427, 418767755, 10>>,
     <<33858039, 973316795, 13>>, <<3826589, 652094117, 12>>,
     <<4264664, 198617816, 12>>, <<4699581, 761625614, 12>>,
     <<24055276, 791638757, 13>>, <<19800637, 926892894, 13>>,
     <<15570499, 258446087, 13>>, <<11412095, 431973516, 13>>,
     <<7469048, 981467132, 13>>, <<4394598, 18552429, 13>>,
     <<4573864, 550915637, 13>>, <<7784935, 808658205, 13>>,
     <<11758022, 28596663, 13>>, <<15925716, 848600582, 13>>,
     <<20159178, 140084246, 13>>, <<24414725, 381103854, 13>>,
     <<2867226, 244107185, 12>>, <<3292008, 275829804, 12>>,
     <<3714995, 487530548, 12>>, <<4135519, 765482446, 12>>,
     <<45529806, 892888955, 13>>, <<24716287, 941318283, 13>>,
     <<2093750, 995861193, 12>>, <<17319637, 19871684, 13>>,
     <<14004796, 84243112, 13>>, <<11279121, 903500654, 13>>,
     <<9666940, 290778753, 13>>, <<9743629, 140929273, 13>>,
     <<11475166, 645372567, 13>>, <<14267193, 709661574, 13>>,
     <<17615942, 60742966, 13>>, <<21251571, 197402104, 13>>,
     <<25039928, 29920366, 13>>, <<28910587, 258997684, 13>>,
     <<32823208, 8949264, 13>>, <<3675244, 536330474, 12>>,
     <<4068086, 582762114, 12>>, <<4459540, 15474183, 12>>,
     <<26494871, 74264393, 13>>, <<23334790, 212386206, 13>>,
     <<20447689, 881941756, 13>>, <<17978837, 240145174, 13>>,
     <<1613241, 352422609, 12>>, <<15145529, 877367978, 13>>,
     <<1519038, 637414682, 12>>, <<16258293, 647912865, 13>>,
     <<1816638, 789652732, 12>>, <<2067761, 780540136, 12>>,
     <<23592581, 721083634, 13>>, <<26770722, 311049817, 13>>,
     <<30118722, 214418653, 13>>, <<33574750, 18979557, 13>>,
     <<3709675, 222767015, 12>>, <<40654964, 699579914, 13>>,
     <<4422731, 599210618, 12>>, <<29186966, 967928806, 13>>,
     <<26654142, 570346444, 13>>, <<2443032, 367829616, 12>>,
     <<22617270, 806594424, 13>>, <<2132820, 518814477, 12>>,
     <<2066698, 388946377, 12>>, <<2069657, 985381883, 12>>,
     <<21414014, 70657395, 13>>, <<22751643, 242882833, 13>>,
     <<24603677, 403758243, 13>>, <<26857262, 1294225, 13>>,
     <<2941210, 528838203, 12>>, <<32187177, 301575966, 13>>,
     <<3511988, 650242977, 12>>, <<38162565, 555474744, 13>>,
     <<4127873, 727108074, 12>>, <<4444001, 657939453, 12>>,
     <<3256611, 735775908, 12>>, <<3059637, 491490042, 12>>,
     <<2891618, 684316708, 12>>, <<275867, 645312408, 11>>,
     <<2666696, 464890753, 12>>, <<26204212, 385973105, 13>>,
     <<2622478, 679952511, 12>>, <<26727482, 272398975, 13>>,
     <<2768391, 444500197, 12>>, <<2904530, 263016145, 12>>,
     <<3075227, 284273195, 12>>, <<32743743, 579380757, 13>>,
     <<3496279, 993929337, 12>>, <<37359478, 884919895, 13>>,
     <<39891376, 817477317, 13>>, <<4252307, 482777189, 12>>,
     <<4522508, 853443177, 12>> >>,
    <<
     <<5028046, 646330458, 12>>, <<475931, 867648222, 11>>,
     <<4532502, 511900892, 12>>, <<4354388, 376290248, 12>>,
     <<4231309, 175471346, 12>>, <<4168261, 718525779, 12>>,
     <<4168030, 25173547, 12>>, <<42306246, 268085615, 13>>,
     <<4353280, 346005692, 12>>, <<4531013, 572427535, 12>>,
     <<475749, 782264387, 11>>, <<502594, 346574018, 11>>,
     <<5329767, 327910373, 12>>, <<5662989, 939323798, 12>>,
     <<6020402, 403552152, 12>>, <<6397580, 543244399, 12>>,
     <<6790816, 565145529, 12>>, <<4559280, 182546371, 12>>,
     <<4268052, 657453199, 12>>, <<40194143, 403228923, 13>>,
     <<38220041, 518305716, 13>>, <<36843082, 955784776, 13>>,
     <<3613322, 322207727, 12>>, <<36130608, 597049077, 13>>,
     <<3683539, 255323605, 12>>, <<38207694, 513238566, 13>>,
     <<40177724, 544462426, 13>>, <<4266067, 635492281, 12>>,
     <<4557013, 417627111, 12>>, <<4882673, 543285211, 12>>,
     <<5236207, 111979437, 12>>, <<5611932, 193890815, 12>>,
     <<6005219, 177192519, 12>>, <<6412320, 713399153, 12>>,
     <<4108139, 234869849, 12>>, <<37916675, 714155554, 13>>,
     <<35174086, 987333253, 13>>, <<3296342, 890723114, 12>>,
     <<31400546, 355978495, 13>>, <<3058712, 170106625, 12>>,
     <<30584115, 161830146, 13>>, <<31391763, 492406562, 13>>,
     <<32949496, 283733706, 13>>, <<35155831, 59768966, 13>>,
     <<37894940, 769336317, 13>>, <<41056, 930564759, 10>>,
     <<44547819, 502245875, 13>>, <<4829173, 279734581, 12>>,
     <<5222912, 986299069, 12>>, <<5631372, 986758194, 12>>,
     <<6050944, 661838751, 12>>, <<36812921, 913172727, 13>>,
     <<33366751, 347984614, 13>>, <<30320813, 947255433, 13>>,
     <<2781266, 417674407, 12>>, <<2600291, 841059763, 12>>,
     <<2504652, 79086762, 12>>, <<2504296, 536830435, 12>>,
     <<25992648, 503807054, 13>>, <<2779667, 674331492, 12>>,
     <<30300314, 538220555, 13>>, <<3334285, 177552591, 12>>,
     <<3678651, 792109046, 12>>, <<4052417, 370259825, 12>>,
     <<4447611, 504049989, 12>>, <<4858382, 328953374, 12>>,
     <<5280410, 201821788, 12>>, <<571045, 222432786, 11>>,
     <<32883796, 589322988, 13>>, <<29132384, 239816765, 13>>,
     <<25729696, 301516205, 13>>, <<2283993, 395226831, 12>>,
     <<2068556, 594195564, 12>>, <<19516127, 373708289, 13>>,
     <<19511733, 237968467, 13>>, <<20673133, 960215455, 13>>,
     <<22821189, 100282395, 13>>, <<25706442, 723141995, 13>>,
     <<29106044, 328246894, 13>>, <<32855366, 470296963, 13>>,
     <<3684167, 204058045, 12>>, <<409890, 773190291, 11>>,
     <<4524586, 500166265, 12>>, <<4957579, 955316269, 12>>,
     <<5395255, 842279879, 12>>, <<29431719, 239841345, 13>>,
     <<2537316, 325138419, 12>>, <<21569557, 234864856, 13>>,
     <<18192276, 549090968, 13>>, <<15531347, 390892192, 13>>,
     <<14008059, 606474726, 13>>, <<14002199, 406147454, 13>>,
     <<15515497, 269017187, 13>>, <<18169752, 528225279, 13>>,
     <<21543017, 126097266, 13>>, <<2534423, 927372856, 12>>,
     <<29401354, 254482567, 13>>, <<3361450, 223745836, 12>>,
     <<37923695, 543535014, 13>>, <<4229092, 277322136, 12>>,
     <<466906, 44088198, 11>>, <<5110440, 611700974, 12>>,
     <<26644012, 999441543, 13>>, <<2233130, 163781042, 12>>,
     <<18140060, 613513413, 13>>, <<14193146, 598890128, 13>>,
     <<10777122, 665386712, 13>>, <<8565523, 680876838, 13>>,
     <<8556409, 113870662, 13>>, <<10755396, 987280114, 13>>,
     <<14165696, 679424059, 13>>, <<18110068, 433947374, 13>>,
     <<2230008, 271229273, 12>>, <<26612166, 921367525, 13>>,
     <<3098683, 769220306, 12>>, <<35391664, 711094327, 13>>,
     <<39806782, 419807496, 13>>, <<4421862, 755512015, 12>>,
     <<48616962, 2297905, 13>>, <<24747183, 382953035, 13>>,
     <<20332090, 194678724, 13>>, <<15921113, 867803833, 13>>,
     <<11538201, 510845777, 13>>, <<7257155, 678477692, 13>>,
     <<3508122, 421997456, 13>>, <<34870733, 347093335, 14>>,
     <<7226684, 798761333, 13>>, <<11506339, 424710934, 13>>,
     <<158888, 858135432, 11>>, <<20299768, 530198985, 13>>,
     <<24714881, 264331675, 13>>, <<29122636, 706590847, 13>>,
     <<33515634, 141428795, 13>>, <<37888093, 655984335, 13>>,
     <<4223486, 831942728, 12>>, <<4655099, 127269091, 12>>,
     <<2395441, 386131746, 12>>, <<1969606, 388008257, 12>>,
     <<15443934, 22544117, 13>>, <<11225737, 317560986, 13>>,
     <<7126287, 62849004, 13>>, <<361138, 20758809, 12>>,
     <<3592264, 803503474, 13>>, <<7097272, 466167212, 13>>,
     <<11195121, 11167064, 13>>, <<15412883, 516311551, 13>>,
     <<19664894, 515278481, 13>>, <<23923256, 164788786, 13>>,
     <<28174678, 314254375, 13>>, <<32410813, 384361763, 13>>,
     <<3662526, 110217335, 12>>, <<4081241, 611354739, 12>>,
     <<449669, 443363435, 11>>, <<2437390, 710318258, 12>>,
     <<20550308, 486434683, 13>>, <<1685714, 342673996, 12>>,
     <<13420398, 597063152, 13>>, <<10511869, 45902833, 13>>,
     <<8693309, 285391987, 13>>, <<8685976, 805162815, 13>>,
     <<10493689, 283093095, 13>>, <<13396718, 65702844, 13>>,
     <<1683084, 110955998, 12>>, <<2052269, 722770122, 12>>,
     <<24345619, 745087056, 13>>, <<28235790, 264821126, 13>>,
     <<3215740, 322910622, 12>>, <<3608810, 370071459, 12>>,
     <<40012446, 9717623, 13>>, <<4391871, 265659446, 12>>,
     <<25946817, 666390134, 13>>, <<22727248, 913020576, 13>>,
     <<1975907, 264950774, 12>>, <<17187103, 709647415, 13>>,
     <<1522534, 907798802, 12>>, <<14138650, 754486857, 13>>,
     <<14134532, 503101716, 13>>, <<15213887, 592818078, 13>>,
     <<17170221, 427428455, 13>>, <<19738589, 993951957, 13>>,
     <<22704468, 579751133, 13>>, <<2592258, 539388505, 12>>,
     <<29299635, 292030143, 13>>, <<3277529, 259010627, 12>>,
     <<36309211, 328147785, 13>>, <<39873129, 483633784, 13>>,
     <<4344619, 422453479, 12>>, <<2848228, 524294632, 12>>,
     <<25895060, 942349146, 13>>, <<23606677, 935335783, 13>>,
     <<21722760, 771426556, 13>>, <<2036459, 767888075, 12>>,
     <<19647524, 281135088, 13>>, <<1964485, 964281438, 12>>,
     <<20356894, 779257138, 13>>, <<21710757, 20420215, 13>>,
     <<23591276, 617210438, 13>>, <<25877108, 585871656, 13>>,
     <<284624, 759912278, 11>>, <<3126361, 849555129, 12>>,
     <<3421699, 703827954, 12>>, <<3727494, 597625411, 12>>,
     <<4040141, 768616028, 12>>, <<435686, 53175306, 11>>,
     <<31749893, 656204417, 13>>, <<2973824, 294292252, 12>>,
     <<28012597, 858789086, 13>>, <<26637217, 743922033, 13>>,
     <<2567512, 352320017, 12>>, <<2517825, 340625111, 12>>,
     <<2517642, 217064352, 12>>, <<2566974, 381293531, 12>>,
     <<26628600, 814971182, 13>>, <<2800117, 784017537, 12>>,
     <<2972449, 571915403, 12>>, <<31734276, 582992557, 13>>,
     <<3397125, 859857018, 12>>, <<3638399, 913088033, 12>>,
     <<38929303, 579282255, 13>>, <<4157143, 606600808, 12>>,
     <<4428089, 54723685, 12>> >>,
    <<
     <<5099159, 62052574, 12>>, <<4828622, 775937753, 12>>,
     <<4598904, 102775301, 12>>, <<4416621, 994834938, 12>>,
     <<4288017, 536089513, 12>>, <<4218130, 715018481, 12>>,
     <<420995, 383899029, 11>>, <<4263849, 593358866, 12>>,
     <<4377476, 429615486, 12>>, <<4546254, 717838422, 12>>,
     <<47641732, 896366375, 13>>, <<5024642, 487543928, 12>>,
     <<5321173, 215732356, 12>>, <<56478014, 632437325, 13>>,
     <<5999284, 586812876, 12>>, <<6371139, 61911899, 12>>,
     <<6759588, 133366112, 12>>, <<46310940, 407271155, 13>>,
     <<4338497, 594351642, 12>>, <<4087259, 255981904, 12>>,
     <<3885738, 497822279, 12>>, <<37422292, 615292818, 13>>,
     <<36637282, 285146475, 13>>, <<36545183, 157804668, 13>>,
     <<37151252, 411872906, 13>>, <<3842180, 75227242, 12>>,
     <<40292644, 860334813, 13>>, <<426829, 48851036, 11>>,
     <<455082, 54581222, 11>>, <<4868972, 905077599, 12>>,
     <<5215867, 574988001, 12>>, <<5585736, 980370764, 12>>,
     <<5973850, 270901957, 12>>, <<6376360, 439227478, 12>>,
     <<4180347, 859114082, 12>>, <<3863121, 591267198, 12>>,
     <<3586768, 104004483, 12>>, <<33618212, 425781107, 13>>,
     <<31994847, 706669398, 13>>, <<31098154, 523741982, 13>>,
     <<3099251, 553180431, 12>>, <<31685984, 57223077, 13>>,
     <<33127524, 16640455, 13>>, <<3522359, 658581568, 12>>,
     <<37863030, 258844146, 13>>, <<40937523, 235254607, 13>>,
     <<4435271, 673087732, 12>>, <<4803142, 297761699, 12>>,
     <<5191251, 844774936, 12>>, <<5594820, 509243322, 12>>,
     <<6010107, 712820701, 12>>, <<37533544, 208203243, 13>>,
     <<34088085, 171095613, 13>>, <<3102923, 674056186, 12>>,
     <<28487676, 732825958, 13>>, <<26616676, 50303704, 13>>,
     <<2556713, 932659437, 12>>, <<2544265, 157002517, 12>>,
     <<2625656, 570499031, 12>>, <<27925755, 654194318, 13>>,
     <<30306850, 429625074, 13>>, <<33243851, 648164805, 13>>,
     <<3659895, 305427402, 12>>, <<40262821, 532793305, 13>>,
     <<4415305, 354830228, 12>>, <<4820865, 616823216, 12>>,
     <<5238440, 33114896, 12>>, <<56646265, 435221585, 13>>,
     <<3359355, 833371044, 12>>, <<2985317, 765146243, 12>>,
     <<2644963, 879875884, 12>>, <<23537426, 291994393, 13>>,
     <<21325299, 563306976, 13>>, <<20050984, 417091204, 13>>,
     <<19897948, 761830323, 13>>, <<20891117, 678655023, 13>>,
     <<22880094, 58455625, 13>>, <<2563096, 867865989, 12>>,
     <<28922851, 684968655, 13>>, <<3258694, 21832687, 12>>,
     <<3650527, 690831142, 12>>, <<405975, 589621453, 11>>,
     <<4480875, 68454121, 12>>, <<4910022, 566061147, 12>>,
     <<5344395, 652832279, 12>>, <<3011484, 14586508, 12>>,
     <<26078245, 313356542, 13>>, <<2228981, 661080232, 12>>,
     <<18910068, 719357973, 13>>, <<16206174, 574912611, 13>>,
     <<14566617, 84200868, 13>>, <<14364397, 261744346, 13>>,
     <<1565570, 586823844, 12>>, <<1812181, 784942325, 12>>,
     <<2135547, 894205646, 12>>, <<25055838, 958581917, 13>>,
     <<2903858, 828553515, 12>>, <<33194975, 118856482, 13>>,
     <<3745927, 279860191, 12>>, <<4178983, 271309922, 12>>,
     <<46158738, 820317585, 13>>, <<5054612, 138164961, 12>>,
     <<27275757, 82286336, 13>>, <<22991977, 311218993, 13>>,
     <<18830771, 298870081, 13>>, <<1490980, 22493373, 12>>,
     <<11492068, 698737544, 13>>, <<9171283, 558369914, 13>>,
     <<8862923, 251631228, 13>>, <<10742337, 684393085, 13>>,
     <<13948603, 334175752, 13>>, <<1777238, 947400983, 12>>,
     <<2188572, 196489531, 12>>, <<2614458, 919797876, 12>>,
     <<30479540, 930861986, 13>>, <<3485300, 889743075, 12>>,
     <<3924229, 38988351, 12>>, <<4363215, 663102428, 12>>,
     <<4801134, 214200093, 12>>, <<2529363, 400511039, 12>>,
     <<2090245, 361303592, 12>>, <<16519318, 850484624, 13>>,
     <<12171851, 655128148, 13>>, <<7940683, 937337446, 13>>,
     <<4221469, 398748208, 13>>, <<354612, 964205919, 12>>,
     <<6879772, 129834151, 13>>, <<11045172, 885585994, 13>>,
     <<15374206, 817030079, 13>>, <<197516, 720309154, 11>>,
     <<2414236, 361206337, 12>>, <<2853055, 1765004, 12>>,
     <<32906954, 209285227, 13>>, <<3726483, 231966958, 12>>,
     <<415984, 984605739, 11>>, <<4590266, 806758444, 12>>,
     <<24379059, 575551273, 13>>, <<20123085, 617835693, 13>>,
     <<15865567, 18465404, 13>>, <<11625453, 617242554, 13>>,
     <<7456697, 188382778, 13>>, <<36485168, 393957156, 14>>,
     <<2899461, 423979113, 13>>, <<6395522, 36016426, 13>>,
     <<1052146, 203306927, 12>>, <<14750947, 653028336, 13>>,
     <<19006384, 950424406, 13>>, <<2326392, 537995021, 12>>,
     <<2751219, 794500036, 12>>, <<31743854, 767938533, 13>>,
     <<35953066, 370291804, 13>>, <<40134581, 139209618, 13>>,
     <<442833, 18276563, 11>>, <<24651422, 27552157, 13>>,
     <<2080181, 816060139, 12>>, <<1706123, 100600265, 12>>,
     <<1353863, 395479304, 12>>, <<10474323, 337573614, 13>>,
     <<8401492, 320547825, 13>>, <<8126926, 687580269, 13>>,
     <<9803685, 434239134, 13>>, <<12675965, 645725803, 13>>,
     <<16110013, 882457292, 13>>, <<19807384, 852098714, 13>>,
     <<23635155, 430235477, 13>>, <<2752836, 353102054, 12>>,
     <<3145131, 344897806, 12>>, <<35382011, 639032216, 13>>,
     <<39305372, 811481056, 13>>, <<43209985, 844564435, 13>>,
     <<2607347, 418544185, 12>>, <<22808727, 85025025, 13>>,
     <<1977349, 350840974, 12>>, <<17105001, 21349453, 13>>,
     <<15012675, 140815682, 13>>, <<137710, 121905047, 11>>,
     <<13619660, 120936096, 13>>, <<1459311, 135667474, 12>>,
     <<16490298, 767187585, 13>>, <<19031235, 96867026, 13>>,
     <<219861, 846088014, 11>>, <<25200792, 778340588, 13>>,
     <<28577285, 197509577, 13>>, <<32053323, 371072424, 13>>,
     <<355877, 196927714, 11>>, <<3915190, 879920422, 12>>,
     <<4272497, 828274853, 12>>, <<2847309, 68091935, 12>>,
     <<258357, 810123333, 11>>, <<23482327, 934766026, 13>>,
     <<21517507, 601067314, 13>>, <<2006504, 960663594, 12>>,
     <<19247813, 401352087, 13>>, <<1915075, 273686944, 12>>,
     <<19784855, 564526695, 13>>, <<2108185, 488369207, 12>>,
     <<2292477, 246685117, 12>>, <<25187403, 99426892, 13>>,
     <<27759091, 161259717, 13>>, <<30552405, 858837824, 13>>,
     <<3350140, 171104359, 12>>, <<36556949, 269419406, 13>>,
     <<39682152, 980092856, 13>>, <<4284873, 728142849, 12>>,
     <<31627910, 407271224, 13>>, <<29570818, 124618236, 13>>,
     <<27791198, 955747686, 13>>, <<26354299, 705723674, 13>>,
     <<25325563, 244259083, 13>>, <<24760795, 347060166, 13>>,
     <<2469443, 777159727, 12>>, <<25130733, 84733474, 13>>,
     <<26042550, 499001077, 13>>, <<27378569, 151431448, 13>>,
     <<2907478, 337264441, 12>>, <<31065157, 667584085, 13>>,
     <<33288584, 384885175, 13>>, <<35692030, 381058717, 13>>,
     <<38231072, 190006544, 13>>, <<4086908, 685431407, 12>>,
     <<4357595, 764052389, 12>> >>,
    <<
     <<496102, 660548246, 11>>, <<4686676, 984638436, 12>>,
     <<4454742, 595363693, 12>>, <<4272368, 149113857, 12>>,
     <<4146273, 409849442, 12>>, <<40817940, 405574445, 13>>,
     <<4081908, 637450768, 12>>, <<4146611, 745442533, 12>>,
     <<4272915, 62066594, 12>>, <<4455476, 254468383, 12>>,
     <<4687572, 479762394, 12>>, <<4962058, 966881512, 12>>,
     <<5272078, 337953989, 12>>, <<5611463, 722339554, 12>>,
     <<5974892, 716643011, 12>>, <<6357882, 733134187, 12>>,
     <<6756705, 139313251, 12>>, <<4496244, 970235621, 12>>,
     <<4198570, 239524424, 12>>, <<39438708, 336769514, 13>>,
     <<37412486, 648999643, 13>>, <<35997484, 279161085, 13>>,
     <<35268952, 436748054, 13>>, <<3527025, 38763093, 12>>,
     <<3600129, 782708733, 12>>, <<3741859, 758593832, 12>>,
     <<39446815, 71210262, 13>>, <<4199547, 845811559, 12>>,
     <<4497358, 612006756, 12>>, <<48298645, 17986255, 13>>,
     <<5190041, 146011702, 12>>, <<5572117, 812285797, 12>>,
     <<5971437, 167104518, 12>>, <<6384259, 989838991, 12>>,
     <<4050210, 882363, 12>>, <<37264020, 515062703, 13>>,
     <<3444953, 415267529, 12>>, <<32174252, 742880194, 13>>,
     <<3056213, 576130194, 12>>, <<29723507, 732276735, 13>>,
     <<29725007, 460880033, 13>>, <<30566509, 410657186, 13>>,
     <<32181170, 697544094, 13>>, <<34458567, 591960837, 13>>,
     <<37274738, 633463294, 13>>, <<4051412, 549459196, 12>>,
     <<4407955, 345711468, 12>>, <<4789373, 435235625, 12>>,
     <<5189678, 449354076, 12>>, <<5604264, 219561359, 12>>,
     <<6029569, 530177411, 12>>, <<36300215, 756999714, 13>>,
     <<32772011, 935502337, 13>>, <<2964119, 763917157, 12>>,
     <<27051874, 816094455, 13>>, <<25176245, 170679645, 13>>,
     <<2418406, 477524841, 12>>, <<2418585, 35857384, 12>>,
     <<25181387, 880444086, 13>>, <<2705984, 325885539, 12>>,
     <<296513, 630342989, 11>>, <<32783808, 469399196, 13>>,
     <<36313198, 8616478, 13>>, <<4012998, 153112421, 12>>,
     <<4415411, 709051328, 12>>, <<483276, 694389764, 11>>,
     <<5260833, 813780258, 12>>, <<5696462, 406288487, 12>>,
     <<3245898, 988003285, 12>>, <<28619253, 266734436, 13>>,
     <<2511858, 926697947, 12>>, <<2212643, 167933163, 12>>,
     <<19880235, 55711667, 13>>, <<186559, 921658041, 11>>,
     <<18658221, 972591334, 13>>, <<19886508, 233477175, 13>>,
     <<2213581, 398803692, 12>>, <<25130138, 923336917, 13>>,
     <<2863225, 501826739, 12>>, <<3247295, 825178173, 12>>,
     <<36539566, 340393935, 13>>, <<40757786, 751188078, 13>>,
     <<450777, 280925159, 11>>, <<4946478, 332666965, 12>>,
     <<5389396, 869455728, 12>>, <<2912294, 749570453, 12>>,
     <<2497664, 66190046, 12>>, <<2106730, 260804186, 12>>,
     <<17564841, 4372522, 13>>, <<14771291, 878782804, 13>>,
     <<13153657, 103038095, 13>>, <<13156685, 203214377, 13>>,
     <<14779374, 591360006, 13>>, <<17576153, 769218415, 13>>,
     <<21080480, 395593063, 13>>, <<24990892, 373740453, 13>>,
     <<29137834, 89399794, 13>>, <<33426107, 286630127, 13>>,
     <<3779969, 553381415, 12>>, <<4222352, 483856437, 12>>,
     <<4667411, 918998983, 12>>, <<5113465, 400158028, 12>>,
     <<26484901, 223486786, 13>>, <<2209883, 5404864, 12>>,
     <<178125, 609780731, 11>>, <<13734975, 200674392, 13>>,
     <<10136535, 984776666, 13>>, <<7732230, 612694732, 13>>,
     <<7737129, 34608279, 13>>, <<10147734, 378912832, 13>>,
     <<13748728, 782781518, 13>>, <<1782737, 469809832, 12>>,
     <<221141, 346424684, 11>>, <<26500447, 287555644, 13>>,
     <<30935497, 245342467, 13>>, <<353918, 231810741, 11>>,
     <<3985253, 224362068, 12>>, <<4430592, 983845589, 12>>,
     <<4874300, 864185332, 12>>, <<24769793, 461387053, 13>>,
     <<20314195, 108839772, 13>>, <<15853310, 606108193, 13>>,
     <<1140018, 667411926, 12>>, <<699294, 354578693, 12>>,
     <<2890054, 151637443, 13>>, <<2902401, 733105443, 13>>,
     <<7008255, 204269683, 13>>, <<11415819, 442326867, 13>>,
     <<15869010, 182399218, 13>>, <<20329893, 225540718, 13>>,
     <<24785458, 634040583, 13>>, <<29228573, 703956486, 13>>,
     <<33653975, 474599647, 13>>, <<38057, 45749548, 10>>,
     <<4243333, 51301743, 12>>, <<4677830, 760124335, 12>>,
     <<2417541, 346035927, 12>>, <<19919151, 76035434, 13>>,
     <<15683102, 248785335, 13>>, <<11509623, 855303996, 13>>,
     <<7526484, 340418535, 13>>, <<43259555, 306329196, 14>>,
     <<4333682, 676452386, 13>>, <<7539795, 289418971, 13>>,
     <<11524106, 413549816, 13>>, <<15697940, 357794068, 13>>,
     <<19934112, 908253649, 13>>, <<24190405, 176405598, 13>>,
     <<28447521, 754319528, 13>>, <<3269420, 241880494, 12>>,
     <<3692247, 983629654, 12>>, <<4112583, 921868186, 12>>,
     <<4529838, 771176906, 12>>, <<24782706, 706910085, 13>>,
     <<20992371, 361369123, 13>>, <<17354673, 710001352, 13>>,
     <<14006103, 775979425, 13>>, <<11224495, 956556543, 13>>,
     <<9532670, 104590836, 13>>, <<9535918, 876507769, 13>>,
     <<11232762, 569684546, 13>>, <<14017120, 723606506, 13>>,
     <<1736708, 63792401, 12>>, <<21005500, 627410456, 13>>,
     <<2479622, 303677888, 12>>, <<2866844, 459388299, 12>>,
     <<32581878, 489028654, 13>>, <<3651132, 462329411, 12>>,
     <<40439493, 207770847, 13>>, <<4435343, 717374318, 12>>,
     <<26509046, 908286423, 13>>, <<23331928, 932697547, 13>>,
     <<20420473, 20876389, 13>>, <<1791811, 322021601, 12>>,
     <<1602884, 49464765, 12>>, <<14994197, 459727661, 13>>,
     <<1499608, 560171268, 12>>, <<16034132, 316500452, 13>>,
     <<17925983, 326980925, 13>>, <<20430105, 262966574, 13>>,
     <<23342714, 256167533, 13>>, <<26520576, 548122735, 13>>,
     <<2986902, 957418113, 12>>, <<33325634, 390268397, 13>>,
     <<3684809, 158668451, 12>>, <<40406559, 376109667, 13>>,
     <<4397896, 439275783, 12>>, <<2915587, 332776337, 12>>,
     <<26605436, 824333915, 13>>, <<24359360, 731655074, 13>>,
     <<22519481, 924266997, 13>>, <<2120019, 431280833, 12>>,
     <<20507950, 358470493, 13>>, <<205091, 922480198, 11>>,
     <<21203793, 291570632, 13>>, <<22525113, 371618354, 13>>,
     <<24366619, 455457894, 13>>, <<26613934, 758179903, 13>>,
     <<29165285, 566043035, 13>>, <<31938530, 67048328, 13>>,
     <<34870346, 984914218, 13>>, <<3791262, 668583064, 12>>,
     <<4102863, 932605133, 12>>, <<4418986, 465594977, 12>>,
     <<32498363, 250101725, 13>>, <<30513226, 552166475, 13>>,
     <<28815113, 295067595, 13>>, <<2746568, 446551759, 12>>,
     <<2652467, 481414069, 12>>, <<26040766, 259158413, 13>>,
     <<2604162, 798836942, 12>>, <<26527209, 1391575, 13>>,
     <<2746975, 118167416, 12>>, <<2882051, 565541774, 12>>,
     <<3051974, 631538988, 12>>, <<32505788, 137659133, 13>>,
     <<3472114, 400676061, 12>>, <<37115355, 928999497, 13>>,
     <<3964564, 91166029, 12>>, <<42276308, 398553865, 13>>,
     <<449776, 892296084, 11>> >>,
    <<
     <<4910884, 196583394, 12>>, <<4641097, 86993819, 12>>,
     <<44147838, 493028175, 13>>, <<4239136, 34467362, 12>>,
     <<41208040, 185752925, 13>>, <<40649045, 205673574, 13>>,
     <<40740576, 676582778, 13>>, <<4147824, 939322688, 12>>,
     <<4282806, 528424111, 12>>, <<4473351, 349027737, 12>>,
     <<4712564, 206681715, 12>>, <<4993251, 451112099, 12>>,
     <<5308593, 259769287, 12>>, <<5652507, 744842023, 12>>,
     <<60197753, 27783465, 13>>, <<6406015, 734490836, 12>>,
     <<6807593, 120485419, 12>>, <<44435208, 55995945, 13>>,
     <<4150260, 891448257, 12>>, <<39012544, 427888615, 13>>,
     <<37057371, 36490276, 13>>, <<35727302, 293923567, 13>>,
     <<35094976, 864339837, 13>>, <<3519870, 92977561, 12>>,
     <<36032010, 394385265, 13>>, <<37545510, 587846184, 13>>,
     <<39659885, 633060303, 13>>, <<4228296, 540555885, 12>>,
     <<4532384, 45492399, 12>>, <<4870113, 513853971, 12>>,
     <<5234611, 769658587, 12>>, <<5620260, 476300277, 12>>,
     <<6022537, 888862086, 12>>, <<6437817, 816473953, 12>>,
     <<39947680, 655384875, 13>>, <<36750423, 433691235, 13>>,
     <<33991934, 834835733, 13>>, <<31790765, 961833404, 13>>,
     <<302718, 873580052, 11>>, <<29542793, 145665005, 13>>,
     <<29662722, 494273626, 13>>, <<30621553, 149008714, 13>>,
     <<32343617, 870414637, 13>>, <<34713494, 392957627, 13>>,
     <<3760613, 76963915, 12>>, <<40907338, 673874556, 13>>,
     <<4452228, 984537159, 12>>, <<4837611, 54779409, 12>>,
     <<5241100, 924430405, 12>>, <<5658259, 858124811, 12>>,
     <<608565, 538286787, 11>>, <<3571823, 110450772, 12>>,
     <<32224841, 472904372, 13>>, <<29146146, 781925886, 13>>,
     <<26631983, 616581756, 13>>, <<2485862, 502017252, 12>>,
     <<239938, 133826322, 11>>, <<24136734, 67873977, 13>>,
     <<2527008, 936869721, 12>>, <<2726911, 739209469, 12>>,
     <<2995836, 68740372, 12>>, <<3316676, 224724982, 12>>,
     <<367542, 547012962, 11>>, <<40615474, 861272364, 13>>,
     <<4467385, 656995448, 12>>, <<4887407, 724329257, 12>>,
     <<5317572, 38343012, 12>>, <<5754862, 405918066, 12>>,
     <<31851431, 557496053, 13>>, <<28036977, 514357536, 13>>,
     <<2457956, 811860225, 12>>, <<21658632, 17689442, 13>>,
     <<1952276, 546420402, 12>>, <<18450939, 871606781, 13>>,
     <<18629663, 220079399, 13>>, <<20025190, 380368726, 13>>,
     <<2240923, 589208324, 12>>, <<25502573, 178028383, 13>>,
     <<29075121, 887077325, 13>>, <<32966020, 494298537, 13>>,
     <<37069002, 248161673, 13>>, <<4131412, 354220126, 12>>,
     <<4565433, 218724353, 12>>, <<5005686, 832000826, 12>>,
     <<5449796, 85100827, 12>>, <<2849670, 389221381, 12>>,
     <<24362669, 824001346, 13>>, <<2048054, 870209192, 12>>,
     <<17034327, 649882648, 13>>, <<14351069, 385624464, 13>>,
     <<12922045, 246035577, 13>>, <<13165309, 918527148, 13>>,
     <<14999292, 295247599, 13>>, <<1793975, 177872311, 12>>,
     <<21533578, 469425956, 13>>, <<2550029, 686144725, 12>>,
     <<29684166, 577413193, 13>>, <<3399774, 498531358, 12>>,
     <<38389311, 960286523, 13>>, <<4282624, 110013644, 12>>,
     <<47286502, 534975625, 13>>, <<5175415, 455681017, 12>>,
     <<2585532, 80138868, 12>>, <<2146813, 875792741, 12>>,
     <<17187569, 19240902, 13>>, <<13133497, 881009885, 13>>,
     <<9612442, 52738693, 13>>, <<7438381, 943383106, 13>>,
     <<7833630, 427823513, 13>>, <<1051160, 586389605, 12>>,
     <<14233771, 710411177, 13>>, <<1837036, 259014503, 12>>,
     <<22688870, 921504636, 13>>, <<27094588, 895544007, 13>>,
     <<31542415, 112165936, 13>>, <<3600753, 364099736, 12>>,
     <<4047439, 784537806, 12>>, <<44932047, 689750325, 13>>,
     <<4937189, 494549961, 12>>, <<24163236, 362416287, 13>>,
     <<1970080, 184473175, 12>>, <<15233132, 686316521, 13>>,
     <<10773315, 654904009, 13>>, <<6362236, 196478522, 13>>,
     <<23426793, 606584286, 14>>, <<334454, 149021772, 12>>,
     <<7586609, 26584925, 13>>, <<12019940, 463363794, 13>>,
     <<16484048, 679912898, 13>>, <<20951168, 871374966, 13>>,
     <<25410765, 46995384, 13>>, <<29856570, 652675623, 13>>,
     <<3428369, 26283605, 12>>, <<38687676, 740063866, 13>>,
     <<4306415, 514902519, 12>>, <<4740863, 272641009, 12>>,
     <<2362582, 502157755, 12>>, <<1937202, 563146411, 12>>,
     <<1514488, 222931944, 12>>, <<1099537, 6421762, 12>>,
     <<7084573, 247168299, 13>>, <<4177939, 700741939, 13>>,
     <<477348, 592669084, 12>>, <<8134404, 373669079, 13>>,
     <<12143924, 126492825, 13>>, <<16323745, 110322336, 13>>,
     <<20561647, 255946195, 13>>, <<24818311, 525479926, 13>>,
     <<29075158, 483807354, 13>>, <<3332111, 351024883, 12>>,
     <<3754823, 905393064, 12>>, <<4174999, 752665856, 12>>,
     <<4592045, 273896117, 12>>, <<24319905, 452147773, 13>>,
     <<20551028, 389903604, 13>>, <<16951997, 229355081, 13>>,
     <<13674428, 514456304, 13>>, <<11024438, 686526196, 13>>,
     <<9551471, 670297043, 13>>, <<9806444, 229431856, 13>>,
     <<11676014, 728147431, 13>>, <<14546058, 628456544, 13>>,
     <<17935810, 495939254, 13>>, <<2159346, 926953437, 12>>,
     <<2539391, 607980939, 12>>, <<2927104, 618438567, 12>>,
     <<3318667, 637749905, 12>>, <<37116603, 287566963, 13>>,
     <<410440, 289453058, 11>>, <<4495625, 124116089, 12>>,
     <<2614741, 16840115, 12>>, <<23006973, 419151886, 13>>,
     <<20150682, 990557045, 13>>, <<1772952, 704349426, 12>>,
     <<1595361, 816379499, 12>>, <<150603, 566724989, 11>>,
     <<15209411, 455096144, 13>>, <<16371838, 468953854, 13>>,
     <<18352473, 61808366, 13>>, <<2091416, 896279459, 12>>,
     <<2386277, 146967734, 12>>, <<27062982, 201697732, 13>>,
     <<30425281, 318020475, 13>>, <<33890311, 161562995, 13>>,
     <<3741758, 548136587, 12>>, <<4097833, 428276289, 12>>,
     <<4455112, 377265228, 12>>, <<28893612, 60874716, 13>>,
     <<2638528, 87173463, 12>>, <<24194903, 15008804, 13>>,
     <<22426086, 540476476, 13>>, <<21192633, 767481875, 13>>,
     <<20596266, 582653316, 13>>, <<2069456, 810020481, 12>>,
     <<21477622, 162829393, 13>>, <<2287230, 572234527, 12>>,
     <<24770479, 200627447, 13>>, <<27059579, 74832227, 13>>,
     <<29640897, 691763844, 13>>, <<32435250, 456613358, 13>>,
     <<3538167, 52063968, 12>>, <<38433765, 800439523, 13>>,
     <<41556008, 84101795, 13>>, <<4472070, 121025533, 12>>,
     <<32324524, 908688522, 13>>, <<30379251, 505765887, 13>>,
     <<2872941, 450544064, 12>>, <<274364, 502992335, 11>>,
     <<26558687, 689211665, 13>>, <<26142033, 342099376, 13>>,
     <<2621034, 845594023, 12>>, <<2675962, 263828922, 12>>,
     <<2775899, 304645533, 12>>, <<29158048, 618547764, 13>>,
     <<30896746, 409246025, 13>>, <<3291408, 856432348, 12>>,
     <<3515368, 214184112, 12>>, <<3756625, 988107622, 12>>,
     <<4011012, 179191185, 12>>, <<42750478, 765796615, 13>>,
     <<4545837, 436378638, 12>> >>,
    <<
     <<4864206, 290266369, 12>>, <<4585526, 906639584, 12>>,
     <<4350288, 888464949, 12>>, <<416608, 9832703, 11>>,
     <<40400541, 981510823, 13>>, <<39778554, 32790503, 13>>,
     <<39825279, 938152444, 13>>, <<40538369, 1984165, 13>>,
     <<41883224, 717220155, 13>>, <<4380061, 932155002, 12>>,
     <<4621781, 815329506, 12>>, <<4905904, 154654681, 12>>,
     <<5225281, 39449942, 12>>, <<5573581, 289560181, 12>>,
     <<5945411, 832323058, 12>>, <<6336280, 823491523, 12>>,
     <<67424866, 219432715, 13>>, <<440287, 621526706, 11>>,
     <<4099854, 980678614, 12>>, <<3840783, 951867668, 12>>,
     <<36353773, 604834355, 13>>, <<34933467, 936182114, 13>>,
     <<34227448, 405824707, 13>>, <<3428060, 976967058, 12>>,
     <<3508944, 844007011, 12>>, <<36603114, 861201398, 13>>,
     <<3873762, 31529414, 12>>, <<413949, 873834271, 11>>,
     <<4447901, 586795144, 12>>, <<4790429, 661290612, 12>>,
     <<51599375, 577138035, 13>>, <<5550640, 481831351, 12>>,
     <<595792, 511492751, 11>>, <<6378122, 775279212, 12>>,
     <<3961559, 966491543, 12>>, <<3631240, 674276592, 12>>,
     <<3344060, 906712211, 12>>, <<31124034, 941368354, 13>>,
     <<2949701, 849925337, 12>>, <<28679314, 599568042, 13>>,
     <<28741109, 23480594, 13>>, <<29676834, 558836867, 13>>,
     <<3140740, 197519841, 12>>, <<338090, 275826481, 11>>,
     <<36747677, 692390725, 13>>, <<40102117, 179849524, 13>>,
     <<4377292, 968046083, 12>>, <<4768263, 518769446, 12>>,
     <<51772153, 342368265, 13>>, <<55996595, 127663695, 13>>,
     <<6032157, 240901842, 12>>, <<35479134, 470424356, 13>>,
     <<3187346, 420665283, 12>>, <<28668563, 299192756, 13>>,
     <<26018694, 480105346, 13>>, <<2411208, 814134254, 12>>,
     <<23136306, 732766816, 13>>, <<23210507, 280137467, 13>>,
     <<243249, 799521752, 11>>, <<26346575, 931621555, 13>>,
     <<2908415, 945672785, 12>>, <<32352980, 968856978, 13>>,
     <<3600437, 15809248, 12>>, <<39928584, 47257987, 13>>,
     <<4404724, 257635707, 12>>, <<4830454, 380248871, 12>>,
     <<526602, 154661216, 11>>, <<5708449, 790768417, 12>>,
     <<3172939, 208480131, 12>>, <<27801581, 21817915, 13>>,
     <<24208211, 203350197, 13>>, <<2112857, 558541779, 12>>,
     <<18823118, 933972082, 13>>, <<17603284, 452674643, 13>>,
     <<17697178, 807020048, 13>>, <<190852, 743171091, 11>>,
     <<2151652, 667954712, 12>>, <<24681152, 861928845, 13>>,
     <<2832995, 708853691, 12>>, <<32293899, 805599012, 13>>,
     <<3646430, 570005546, 12>>, <<40771190, 673515994, 13>>,
     <<4516825, 637775375, 12>>, <<496236, 655516172, 11>>,
     <<54114518, 795736985, 13>>, <<2852073, 425977336, 12>>,
     <<242831, 826798451, 11>>, <<2026714, 435159794, 12>>,
     <<16644906, 934308985, 13>>, <<13741547, 446448858, 13>>,
     <<12093979, 380808983, 13>>, <<12224549, 119719986, 13>>,
     <<14083666, 568510027, 13>>, <<17114259, 632954881, 13>>,
     <<20806147, 481554463, 13>>, <<24860815, 834535083, 13>>,
     <<29120592, 290095674, 13>>, <<33500073, 968628417, 13>>,
     <<37949952, 934001462, 13>>, <<42439598, 969625395, 13>>,
     <<4694850, 648208436, 12>>, <<5146188, 130966022, 12>>,
     <<26054999, 667514853, 13>>, <<21591451, 16679734, 13>>,
     <<17206602, 165133047, 13>>, <<12995831, 230518265, 13>>,
     <<9217228, 807459595, 13>>, <<6667469, 428229642, 13>>,
     <<6890326, 211984857, 13>>, <<9696125, 70328701, 13>>,
     <<13563360, 204431267, 13>>, <<17807901, 114676101, 13>>,
     <<2220758, 966075296, 12>>, <<2667802, 934416455, 12>>,
     <<31180355, 608766035, 13>>, <<35693434, 887406092, 13>>,
     <<402039, 805806769, 11>>, <<44702489, 870286745, 13>>,
     <<4918136, 132102577, 12>>, <<2455784, 87850529, 12>>,
     <<20062561, 18278166, 13>>, <<15555754, 251183926, 13>>,
     <<11042618, 55932269, 13>>, <<6534029, 643652576, 13>>,
     <<2109088, 34709465, 13>>, <<2702121, 645632735, 13>>,
     <<715862, 286106558, 12>>, <<11669143, 931930294, 13>>,
     <<16181818, 686883066, 13>>, <<2068729, 201813437, 12>>,
     <<25180642, 580445374, 13>>, <<29657907, 407100233, 13>>,
     <<34115329, 66267454, 13>>, <<38549103, 490101766, 13>>,
     <<4295526, 32553231, 12>>, <<4732958, 555622894, 12>>,
     <<24210095, 690697094, 13>>, <<19965784, 110049678, 13>>,
     <<15764093, 652648783, 13>>, <<11670437, 785501392, 13>>,
     <<7876529, 765408989, 13>>, <<5122862, 919405545, 13>>,
     <<5377204, 921705711, 13>>, <<8369221, 109051217, 13>>,
     <<12227577, 523809891, 13>>, <<1634297, 151528469, 12>>,
     <<20553226, 533741154, 13>>, <<248007, 263879414, 11>>,
     <<2905901, 614330372, 12>>, <<3331315, 587308051, 12>>,
     <<37553119, 330997706, 13>>, <<4177115, 859249336, 12>>,
     <<4596060, 4030725, 12>>, <<2505976, 142541715, 12>>,
     <<2132064, 897957799, 12>>, <<17766312, 216192698, 13>>,
     <<1454887, 908409021, 12>>, <<11958069, 886552419, 13>>,
     <<10480530, 697749748, 13>>, <<10597883, 646998016, 13>>,
     <<12264106, 580848922, 13>>, <<14966563, 943624174, 13>>,
     <<18244041, 406015958, 13>>, <<2183097, 394616989, 12>>,
     <<25588220, 663278785, 13>>, <<2944035, 972918588, 12>>,
     <<33343433, 728119167, 13>>, <<37269640, 154218464, 13>>,
     <<4119988, 18848231, 12>>, <<4511993, 804872122, 12>>,
     <<2699377, 180102489, 12>>, <<23881117, 54976107, 13>>,
     <<21056566, 628355326, 13>>, <<1866405, 981019538, 12>>,
     <<16898490, 535858402, 13>>, <<159762, 789935687, 11>>,
     <<16046918, 652137738, 13>>, <<17097870, 945680265, 13>>,
     <<18963570, 986463574, 13>>, <<2142661, 108694379, 12>>,
     <<2429858, 872878396, 12>>, <<27442581, 299251847, 13>>,
     <<30765350, 942092623, 13>>, <<34203935, 17403574, 13>>,
     <<3771494, 178508443, 12>>, <<4126740, 363655696, 12>>,
     <<4483825, 882163069, 12>>, <<29801249, 805515668, 13>>,
     <<2730974, 418040114, 12>>, <<2513369, 276975733, 12>>,
     <<23371402, 610995406, 13>>, <<22129783, 592800472, 13>>,
     <<21504495, 893169924, 13>>, <<2155178, 4551423, 12>>,
     <<22267170, 54767694, 13>>, <<23587312, 494565876, 13>>,
     <<25413380, 377448443, 13>>, <<27638751, 512948147, 13>>,
     <<3016719, 169210595, 12>>, <<3291971, 286141904, 12>>,
     <<3583443, 249747929, 12>>, <<38863666, 382987053, 13>>,
     <<4197058, 599856266, 12>>, <<4512633, 590442751, 12>>,
     <<33261012, 601567186, 13>>, <<31322149, 97770507, 13>>,
     <<29674719, 623645515, 13>>, <<28377517, 121681813, 13>>,
     <<27486287, 665263067, 13>>, <<27045270, 824425393, 13>>,
     <<27078428, 645453337, 13>>, <<27583908, 267139177, 13>>,
     <<28534490, 104657457, 13>>, <<2988378, 585114264, 12>>,
     <<3157516, 335882347, 12>>, <<33549946, 595325973, 13>>,
     <<35752982, 528870116, 13>>, <<38135416, 923682765, 13>>,
     <<4065543, 395952131, 12>>, <<43277841, 183462115, 13>>,
     <<4597315, 405409198, 12>> >>,
    <<
     <<4747526, 308222574, 12>>, <<4467463, 870980784, 12>>,
     <<4232439, 763070029, 12>>, <<405051, 175518548, 11>>,
     <<39292184, 119330454, 13>>, <<38743590, 312705714, 13>>,
     <<38887899, 832385497, 13>>, <<39717448, 721503597, 13>>,
     <<411902, 263828749, 11>>, <<432394, 466336537, 11>>,
     <<4578622, 873329409, 12>>, <<4875070, 333728472, 12>>,
     <<52059, 231786876, 10>>, <<5564778, 343236628, 12>>,
     <<5946262, 146284373, 12>>, <<6345951, 731232019, 12>>,
     <<6760236, 195245111, 12>>, <<4287921, 968773542, 12>>,
     <<39824515, 618626624, 13>>, <<37226064, 321328513, 13>>,
     <<35188012, 71281437, 13>>, <<33814037, 250016236, 13>>,
     <<33188135, 687170507, 13>>, <<33353065, 957288563, 13>>,
     <<34297264, 504436707, 13>>, <<3595852, 607341427, 12>>,
     <<3824200, 234697221, 12>>, <<41041885, 880107475, 13>>,
     <<4425768, 300827646, 12>>, <<478024, 675223321, 11>>,
     <<5160498, 507650966, 12>>, <<5560845, 120008592, 12>>,
     <<5976811, 892576602, 12>>, <<6404871, 727552588, 12>>,
     <<38494895, 722544625, 13>>, <<3515396, 834978972, 12>>,
     <<3226057, 539029181, 12>>, <<2994876, 151799969, 12>>,
     <<28364180, 47863338, 13>>, <<2763422, 440966295, 12>>,
     <<27827104, 150182663, 13>>, <<289241, 447719822, 11>>,
     <<3082777, 364066499, 12>>, <<33398315, 341699736, 13>>,
     <<3649235, 291482426, 12>>, <<39985171, 878152387, 13>>,
     <<4377749, 733497195, 12>>, <<4779364, 599798709, 12>>,
     <<5197682, 196645679, 12>>, <<56284354, 64019535, 13>>,
     <<60683797, 97225715, 13>>, <<34405052, 316283304, 13>>,
     <<3074618, 275579099, 12>>, <<2750078, 393026912, 12>>,
     <<248371, 73345454, 11>>, <<2296290, 762212529, 12>>,
     <<22083028, 611020427, 13>>, <<22316650, 218352215, 13>>,
     <<23630461, 212160667, 13>>, <<25858697, 953785845, 13>>,
     <<2878708, 28859474, 12>>, <<32221690, 923117876, 13>>,
     <<3601367, 559354887, 12>>, <<4005673, 805677586, 12>>,
     <<4427665, 87805398, 12>>, <<4862134, 168096682, 12>>,
     <<53053566, 412756445, 13>>, <<5754592, 848966973, 12>>,
     <<30729050, 9781063, 13>>, <<2673259, 319533665, 12>>,
     <<23075092, 451438118, 13>>, <<19951780, 284260233, 13>>,
     <<17655015, 633353637, 13>>, <<1653729, 112609814, 12>>,
     <<1683698, 365012835, 12>>, <<18484834, 930314387, 13>>,
     <<2116602, 911408322, 12>>, <<2454059, 733524359, 12>>,
     <<2835748, 425316733, 12>>, <<3245562, 103173456, 12>>,
     <<36734942, 770351454, 13>>, <<4113228, 26898766, 12>>,
     <<4560627, 606890296, 12>>, <<5012859, 511421824, 12>>,
     <<54678825, 373535365, 13>>, <<276338, 857036314, 11>>,
     <<23318652, 906482134, 13>>, <<19216442, 227841994, 13>>,
     <<1550857, 203181869, 12>>, <<12559617, 728153146, 13>>,
     <<11005275, 754498812, 13>>, <<11432511, 640882678, 13>>,
     <<13655926, 655950095, 13>>, <<16981016, 572936364, 13>>,
     <<2088340, 20185509, 12>>, <<25089391, 379439194, 13>>,
     <<29462673, 933144365, 13>>, <<33931369, 791047796, 13>>,
     <<38454368, 171005126, 13>>, <<4300609, 319758117, 12>>,
     <<4756925, 946701698, 12>>, <<5213119, 640748209, 12>>,
     <<2533443, 150973024, 12>>, <<2080253, 945739723, 12>>,
     <<16332401, 883153007, 13>>, <<12009062, 38959225, 13>>,
     <<8088951, 583724914, 13>>, <<5528343, 509943926, 13>>,
     <<6299889, 364729444, 13>>, <<9632713, 361326315, 13>>,
     <<13774875, 413870325, 13>>, <<18175448, 542346053, 13>>,
     <<2267754, 131997217, 12>>, <<2722306, 511220348, 12>>,
     <<3178496, 462827875, 12>>, <<3634804, 961697824, 12>>,
     <<4090231, 582318385, 12>>, <<4544021, 27242902, 12>>,
     <<49955357, 475364535, 13>>, <<24060671, 89983066, 13>>,
     <<19534875, 244368548, 13>>, <<14996623, 337769965, 13>>,
     <<1044912, 269344334, 12>>, <<5895983, 616476096, 13>>,
     <<13496451, 579028457, 14>>, <<3231617, 87432993, 13>>,
     <<7785017, 804548796, 13>>, <<1233633, 717253391, 12>>,
     <<16880397, 823399385, 13>>, <<21413869, 954872457, 13>>,
     <<2593355, 719598114, 12>>, <<30436187, 214264655, 13>>,
     <<349183, 387125781, 11>>, <<39376392, 922160576, 13>>,
     <<4380648, 944634914, 12>>, <<4820448, 92583694, 12>>,
     <<2397701, 963794115, 12>>, <<19757695, 482982008, 13>>,
     <<15611869, 734948964, 13>>, <<1163690, 312359567, 12>>,
     <<8107958, 356282846, 13>>, <<5907029, 747446229, 13>>,
     <<6554899, 273048012, 13>>, <<9483528, 915331358, 13>>,
     <<13254126, 516330848, 13>>, <<17318361, 88730883, 13>>,
     <<21502076, 666189173, 13>>, <<25737809, 118115224, 13>>,
     <<2999349, 588745196, 12>>, <<3425099, 264858055, 12>>,
     <<38498354, 207159573, 13>>, <<4272662, 378895689, 12>>,
     <<4692832, 861317846, 12>>, <<25095404, 428029333, 13>>,
     <<21424507, 130619836, 13>>, <<17978890, 807669868, 13>>,
     <<14930377, 673272324, 13>>, <<12584104, 817350105, 13>>,
     <<11391967, 674346504, 13>>, <<1171573, 737204544, 12>>,
     <<1344547, 239459394, 12>>, <<16130882, 133128619, 13>>,
     <<19372098, 18059255, 13>>, <<22926544, 221323866, 13>>,
     <<2665998, 850293898, 12>>, <<30496579, 490433073, 13>>,
     <<3439083, 284548778, 12>>, <<38313465, 17147287, 13>>,
     <<4224417, 477850928, 12>>, <<4616781, 519096185, 12>>,
     <<2726802, 902116087, 12>>, <<2423895, 681466424, 12>>,
     <<21527186, 816933036, 13>>, <<19278882, 612510617, 13>>,
     <<17681151, 214952147, 13>>, <<16925520, 304582915, 13>>,
     <<17126536, 272844774, 13>>, <<18251957, 10010879, 13>>,
     <<20143961, 1264365, 13>>, <<2260519, 3206701, 12>>,
     <<2546371, 34099611, 12>>, <<28591843, 184552263, 13>>,
     <<31900501, 475146734, 13>>, <<35328192, 174546307, 13>>,
     <<38831769, 305724547, 13>>, <<4238001, 234916986, 12>>,
     <<4594943, 748408408, 12>>, <<30268170, 166821747, 13>>,
     <<27854873, 889623505, 13>>, <<2577308, 826637722, 12>>,
     <<24118179, 499680296, 13>>, <<22989703, 690622205, 13>>,
     <<22471799, 820114798, 13>>, <<22608518, 232213946, 13>>,
     <<23387864, 280904823, 13>>, <<24746351, 529965395, 13>>,
     <<2659050, 801913114, 12>>, <<2882070, 211359242, 12>>,
     <<3134667, 105998978, 12>>, <<34093555, 851180968, 13>>,
     <<37001968, 207026234, 13>>, <<400255, 710587994, 11>>,
     <<4312816, 771788785, 12>>, <<462811, 189256592, 11>>,
     <<338759, 151244173, 11>>, <<3200113, 962711384, 12>>,
     <<3042554, 507355692, 12>>, <<29205101, 395523493, 13>>,
     <<28391298, 920367226, 13>>, <<28023246, 984497746, 13>>,
     <<2812006, 162605186, 12>>, <<2867662, 294434944, 12>>,
     <<296647, 454327553, 11>>, <<3103917, 656818926, 12>>,
     <<3274568, 544907604, 12>>, <<34728351, 113413005, 13>>,
     <<36934510, 887410765, 13>>, <<39317268, 103970096, 13>>,
     <<41836204, 183487625, 13>>, <<4445704, 925251672, 12>>,
     <<4715088, 168341452, 12>> >>,
    <<
     <<5032626, 120430481, 12>>, <<474657, 5081925, 11>>,
     <<4501027, 618683267, 12>>, <<4303185, 401854005, 12>>,
     <<4160044, 800744004, 12>>, <<4077503, 358282573, 12>>,
     <<4059333, 229840483, 12>>, <<4106404, 782440874, 12>>,
     <<4216493, 583527025, 12>>, <<4384763, 312542084, 12>>,
     <<4604699, 184635129, 12>>, <<4869119, 186794181, 12>>,
     <<5170975, 737830477, 12>>, <<5503844, 536384121, 12>>,
     <<5862137, 463094092, 12>>, <<6241129, 944032703, 12>>,
     <<6636888, 12900423, 12>>, <<4575076, 983247659, 12>>,
     <<42656681, 481321275, 13>>, <<39968564, 752228667, 13>>,
     <<3777652, 7646309, 12>>, <<3617345, 267110495, 12>>,
     <<35241658, 83065286, 13>>, <<35035756, 528335787, 13>>,
     <<35568573, 797077015, 13>>, <<36807497, 315413116, 13>>,
     <<38683495, 857581197, 13>>, <<4110756, 144675682, 12>>,
     <<4398672, 830760147, 12>>, <<4723487, 971091447, 12>>,
     <<5077779, 952363551, 12>>, <<5455416, 193403984, 12>>,
     <<585143, 904611851, 11>>, <<6261872, 776669239, 12>>,
     <<4137046, 629382921, 12>>, <<3801829, 205571402, 12>>,
     <<3506037, 659917027, 12>>, <<3260868, 642292324, 12>>,
     <<30787969, 72144115, 13>>, <<2971696, 39596593, 12>>,
     <<29478903, 279228552, 13>>, <<30093870, 795883136, 13>>,
     <<3151121, 724520627, 12>>, <<3362797, 37491822, 12>>,
     <<36319574, 366472325, 13>>, <<3946541, 323945291, 12>>,
     <<4296202, 693305001, 12>>, <<4672637, 403669897, 12>>,
     <<5069394, 732496136, 12>>, <<5481520, 256658153, 12>>,
     <<59051991, 845577695, 13>>, <<37256238, 326458556, 13>>,
     <<33622685, 362173293, 13>>, <<3035154, 932786912, 12>>,
     <<27578167, 231647503, 13>>, <<2547059, 691122509, 12>>,
     <<2420693, 369413742, 12>>, <<2392328, 23018472, 12>>,
     <<24653903, 778655904, 13>>, <<2631343, 752309336, 12>>,
     <<28739186, 488554205, 13>>, <<3175280, 711020519, 12>>,
     <<35199578, 426644416, 13>>, <<3895994, 720545667, 12>>,
     <<42946223, 416769035, 13>>, <<47095091, 709346625, 13>>,
     <<5136059, 781238666, 12>>, <<55708794, 445518615, 13>>,
     <<33508026, 303382107, 13>>, <<29579637, 494673534, 13>>,
     <<2595176, 328596816, 12>>, <<22776691, 217591406, 13>>,
     <<2027525, 103583034, 12>>, <<1872458, 640651841, 12>>,
     <<18370007, 908454343, 13>>, <<19278226, 909654993, 13>>,
     <<2128681, 809545296, 12>>, <<2411947, 83376663, 12>>,
     <<27518727, 45964647, 13>>, <<3129540, 761520882, 12>>,
     <<35322793, 786314473, 13>>, <<39517771, 306179066, 13>>,
     <<43825079, 263232665, 13>>, <<4820684, 572325074, 12>>,
     <<5263608, 464219693, 12>>, <<3026370, 83117622, 12>>,
     <<2605499, 78647353, 12>>, <<22047674, 241182103, 13>>,
     <<18385136, 744131114, 13>>, <<15326789, 491825987, 13>>,
     <<13304237, 348648612, 13>>, <<12822145, 757957342, 13>>,
     <<14041010, 372300211, 13>>, <<16588074, 218308702, 13>>,
     <<1995723, 842087579, 12>>, <<23796591, 127359525, 13>>,
     <<2790646, 740398504, 12>>, <<32176301, 920720125, 13>>,
     <<3654231, 408152931, 12>>, <<4096538, 345417006, 12>>,
     <<4541984, 667719753, 12>>, <<4988766, 437240533, 12>>,
     <<2770217, 16915606, 12>>, <<23286350, 57886843, 13>>,
     <<18948930, 490104199, 13>>, <<14774183, 28957918, 13>>,
     <<10964992, 816837464, 13>>, <<8071834, 246132281, 13>>,
     <<7292058, 622054102, 13>>, <<9182454, 960131267, 13>>,
     <<12590187, 98053864, 13>>, <<1660084, 331359462, 12>>,
     <<2086308, 281460098, 12>>, <<25242269, 782345475, 13>>,
     <<29678389, 428897185, 13>>, <<341403, 36942832, 11>>,
     <<3860950, 389053821, 12>>, <<43073546, 216096565, 13>>,
     <<4752307, 840861887, 12>>, <<26026795, 775906508, 13>>,
     <<21567597, 835855317, 13>>, <<17099663, 743403123, 13>>,
     <<12632368, 335212052, 13>>, <<8188483, 71005882, 13>>,
     <<38815141, 777926476, 14>>, <<19383853, 49320155, 14>>,
     <<5757973, 840904376, 13>>, <<10157769, 588280408, 13>>,
     <<14616829, 368542021, 13>>, <<19086001, 965705868, 13>>,
     <<2355091, 360104021, 12>>, <<2800424, 432463504, 12>>,
     <<3244076, 236506947, 12>>, <<3685593, 235419406, 12>>,
     <<41245399, 577913795, 13>>, <<4560475, 65534355, 12>>,
     <<25414036, 927784114, 13>>, <<21156599, 869294505, 13>>,
     <<16915054, 989418145, 13>>, <<12724721, 491102339, 13>>,
     <<8681746, 757925748, 13>>, <<5170876, 952823263, 13>>,
     <<401958, 981516296, 12>>, <<6607653, 968078426, 13>>,
     <<10448414, 507600814, 13>>, <<14576999, 898347378, 13>>,
     <<18796600, 286373255, 13>>, <<2304806, 967835694, 12>>,
     <<27306492, 198019573, 13>>, <<31558324, 448064477, 13>>,
     <<35794547, 665118853, 13>>, <<40008129, 982165483, 13>>,
     <<4419292, 441227321, 12>>, <<2593951, 69355167, 12>>,
     <<22126441, 635981296, 13>>, <<18445178, 705373417, 13>>,
     <<1501005, 413635738, 12>>, <<12049697, 893370158, 13>>,
     <<10008490, 684128585, 13>>, <<9506492, 880385304, 13>>,
     <<10762797, 333533144, 13>>, <<13284568, 610709457, 13>>,
     <<1649544, 771104161, 12>>, <<20059419, 461759999, 13>>,
     <<2380929, 439410908, 12>>, <<27659393, 998564324, 13>>,
     <<31562062, 566679424, 13>>, <<35488233, 925802174, 13>>,
     <<39418478, 91869265, 13>>, <<43338613, 389898965, 13>>,
     <<2753797, 328965024, 12>>, <<24312235, 912328133, 13>>,
     <<21323868, 334979306, 13>>, <<1870083, 905907693, 12>>,
     <<16628785, 643714853, 13>>, <<15341494, 607082595, 13>>,
     <<1504680, 80524677, 12>>, <<15801370, 936921105, 13>>,
     <<17467344, 753732887, 13>>, <<19811059, 987707604, 13>>,
     <<2261572, 684804746, 12>>, <<2572241, 804836988, 12>>,
     <<29024523, 8527476, 13>>, <<32451668, 617453292, 13>>,
     <<3595649, 450607101, 12>>, <<3950594, 175981971, 12>>,
     <<4307587, 161736862, 12>>, <<30038142, 405899794, 13>>,
     <<27424342, 766876507, 13>>, <<2509085, 57107266, 12>>,
     <<23133693, 66986516, 13>>, <<21664080, 369920407, 13>>,
     <<20792110, 221549806, 13>>, <<20597462, 380605666, 13>>,
     <<21099658, 862916485, 13>>, <<2224967, 443537603, 12>>,
     <<2395018, 76008265, 12>>, <<26087639, 205397054, 13>>,
     <<28556408, 14992803, 13>>, <<3126910, 972535088, 12>>,
     <<3415756, 848971412, 12>>, <<37169769, 467812603, 13>>,
     <<40266038, 386067135, 13>>, <<4341570, 97521485, 12>>,
     <<33236419, 135383753, 13>>, <<31186072, 463155906, 13>>,
     <<29406278, 158357222, 13>>, <<27957575, 755654393, 13>>,
     <<2690049, 241923817, 12>>, <<26287255, 823579912, 13>>,
     <<2615188, 389727453, 12>>, <<2650229, 448413922, 12>>,
     <<2731830, 299688237, 12>>, <<28556602, 739816535, 13>>,
     <<30160086, 491496563, 13>>, <<32067377, 379792447, 13>>,
     <<3421976, 73460752, 12>>, <<36564882, 938808073, 13>>,
     <<390579, 366856536, 11>>, <<4166136, 819911224, 12>>,
     <<4434392, 19402937, 12>> >>,
    <<
     <<4907177, 955049737, 12>>, <<46182463, 712006975, 13>>,
     <<4371295, 90411918, 12>>, <<4174014, 348670037, 12>>,
     <<4033876, 608700175, 12>>, <<39570794, 547466216, 13>>,
     <<39473859, 690123504, 13>>, <<40052912, 776254034, 13>>,
     <<4127905, 500586545, 12>>, <<4309612, 635745501, 12>>,
     <<4543185, 160001184, 12>>, <<4820904, 939111548, 12>>,
     <<5135389, 268616716, 12>>, <<5480048, 942259359, 12>>,
     <<5849251, 361802923, 12>>, <<6238301, 612925484, 12>>,
     <<6643335, 42811989, 12>>, <<4452423, 834384407, 12>>,
     <<413898, 407656295, 11>>, <<38676080, 407039744, 13>>,
     <<3648014, 666149596, 12>>, <<34902393, 658509986, 13>>,
     <<3403061, 605280064, 12>>, <<3392019, 182626763, 12>>,
     <<34578525, 579220127, 13>>, <<3596278, 819897718, 12>>,
     <<37992401, 773495963, 13>>, <<40568705, 49780137, 13>>,
     <<4359241, 790256587, 12>>, <<46974267, 148342715, 13>>,
     <<5063913, 435464173, 12>>, <<5452611, 666320637, 12>>,
     <<5858670, 577216528, 12>>, <<627824, 418978057, 11>>,
     <<4018540, 35695515, 12>>, <<3677928, 973719427, 12>>,
     <<33780554, 513850725, 13>>, <<3131082, 702234873, 12>>,
     <<29506684, 463075494, 13>>, <<28497213, 845258016, 13>>,
     <<2836864, 238356164, 12>>, <<2913278, 844756962, 12>>,
     <<30722239, 236232563, 13>>, <<3301624, 575937783, 12>>,
     <<3587737, 380341137, 12>>, <<3917836, 767140358, 12>>,
     <<4281381, 329202491, 12>>, <<4670133, 919923672, 12>>,
     <<5077823, 573852759, 12>>, <<5499704, 691238286, 12>>,
     <<5932161, 431056787, 12>>, <<3613243, 499952551, 12>>,
     <<3242996, 160325844, 12>>, <<2909874, 235785789, 12>>,
     <<2628627, 585355167, 12>>, <<24179100, 947972497, 13>>,
     <<2297552, 33240609, 12>>, <<2282076, 861050381, 12>>,
     <<23735585, 124312734, 13>>, <<25604382, 650958373, 13>>,
     <<2823600, 611481133, 12>>, <<31436140, 618006866, 13>>,
     <<3504528, 820511685, 12>>, <<3894512, 881556553, 12>>,
     <<4305136, 438481707, 12>>, <<4730433, 900333133, 12>>,
     <<5166132, 631565567, 12>>, <<5609101, 696146281, 12>>,
     <<32474270, 160449955, 13>>, <<2846314, 298040646, 12>>,
     <<24753094, 842159862, 13>>, <<21508715, 965329284, 13>>,
     <<1897733, 265723149, 12>>, <<17476674, 354876266, 13>>,
     <<17280122, 814683127, 13>>, <<18429763, 817412424, 13>>,
     <<2070085, 182818555, 12>>, <<23770951, 493489715, 13>>,
     <<27368200, 918157418, 13>>, <<31306249, 183317213, 13>>,
     <<3546586, 846577144, 12>>, <<39771076, 831900523, 13>>,
     <<4417220, 924819672, 12>>, <<4863552, 619338034, 12>>,
     <<5313704, 636507582, 12>>, <<29360340, 548951986, 13>>,
     <<25062262, 679680257, 13>>, <<2095462, 229733601, 12>>,
     <<17185890, 149747268, 13>>, <<14042138, 832227806, 13>>,
     <<12032083, 98150422, 13>>, <<1175694, 136462987, 12>>,
     <<13325103, 764369221, 13>>, <<16207781, 587920451, 13>>,
     <<19835803, 541461332, 13>>, <<23866246, 106176327, 13>>,
     <<2812026, 82807193, 12>>, <<32503096, 565870737, 13>>,
     <<3696122, 650628005, 12>>, <<4146203, 955071829, 12>>,
     <<4598407, 481767344, 12>>, <<505120, 815275255, 11>>,
     <<26980957, 204525594, 13>>, <<22486517, 610483165, 13>>,
     <<180527, 737338933, 11>>, <<13753926, 941003567, 13>>,
     <<978575, 934094963, 12>>, <<677391, 66435653, 12>>,
     <<6297362, 400139153, 13>>, <<8779962, 364742593, 13>>,
     <<12573579, 114074641, 13>>, <<16807599, 59635686, 13>>,
     <<2121331, 763212487, 12>>, <<2569500, 649186559, 12>>,
     <<30210593, 592172017, 13>>, <<347379, 547411487, 11>>,
     <<39263515, 778391748, 13>>, <<437777, 363210853, 11>>,
     <<4827307, 516389766, 12>>, <<2554310, 104754034, 12>>,
     <<2104180, 22663103, 12>>, <<1652726, 984993813, 12>>,
     <<12003317, 256368318, 13>>, <<7475310, 408393943, 13>>,
     <<2962954, 30997047, 13>>, <<17017884, 828074128, 14>>,
     <<6184348, 240305446, 13>>, <<10711649, 177862787, 13>>,
     <<1523745, 342065003, 12>>, <<1975508, 695221539, 12>>,
     <<24260525, 302112583, 13>>, <<2875020, 640183693, 12>>,
     <<33220598, 387865525, 13>>, <<37668051, 579418507, 13>>,
     <<4208871, 981171832, 12>>, <<4647850, 171685458, 12>>,
     <<25208891, 117783796, 13>>, <<20963601, 844909235, 13>>,
     <<16758503, 160978821, 13>>, <<12652486, 688994868, 13>>,
     <<8805697, 633461189, 13>>, <<5783673, 75478316, 13>>,
     <<5286175, 473418001, 13>>, <<78124, 515707056, 11>>,
     <<11516434, 965098892, 13>>, <<15573013, 278691853, 13>>,
     <<19758168, 458882083, 13>>, <<23995612, 169292617, 13>>,
     <<2825190, 677786393, 12>>, <<32509036, 887174598, 13>>,
     <<36755459, 134775188, 13>>, <<4098262, 22630425, 12>>,
     <<4518340, 290629417, 12>>, <<26020993, 697156196, 13>>,
     <<22266340, 883537273, 13>>, <<18681325, 690578883, 13>>,
     <<15400868, 158281046, 13>>, <<12678352, 412013235, 13>>,
     <<10949935, 788361342, 13>>, <<10714450, 128549654, 13>>,
     <<12060348, 926558315, 13>>, <<14551989, 833041066, 13>>,
     <<17706226, 496802574, 13>>, <<2122192, 503846428, 12>>,
     <<2493764, 340106891, 12>>, <<28765939, 584795087, 13>>,
     <<3265638, 62636347, 12>>, <<36577543, 134374155, 13>>,
     <<40508216, 571008707, 13>>, <<4443290, 836169645, 12>>,
     <<27879171, 710967685, 13>>, <<2473250, 656614398, 12>>,
     <<2185348, 550033827, 12>>, <<19374674, 744458146, 13>>,
     <<17477953, 793136687, 13>>, <<16374656, 797796085, 13>>,
     <<16231553, 849435977, 13>>, <<17073295, 11381424, 13>>,
     <<187651, 613819407, 11>>, <<21098504, 2874906, 13>>,
     <<23878994, 660223534, 13>>, <<2696014, 635685225, 12>>,
     <<30240526, 46687824, 13>>, <<33651270, 937830545, 13>>,
     <<3714498, 540148873, 12>>, <<4068802, 607920462, 12>>,
     <<4425553, 896044212, 12>>, <<30592868, 51375385, 13>>,
     <<2805650, 533454862, 12>>, <<25818178, 183423665, 13>>,
     <<2397184, 99358429, 12>>, <<2262191, 326272105, 12>>,
     <<21866300, 683170857, 13>>, <<2177005, 163259633, 12>>,
     <<22342061, 986985104, 13>>, <<23531526, 140794253, 13>>,
     <<25247029, 297882304, 13>>, <<27383761, 769330777, 13>>,
     <<2984373, 542357807, 12>>, <<3254480, 788177641, 12>>,
     <<35421852, 359762847, 13>>, <<38424395, 194997774, 13>>,
     <<4151339, 531159393, 12>>, <<4465830, 976826327, 12>>,
     <<33956814, 72315474, 13>>, <<3197126, 526417968, 12>>,
     <<3026509, 136215668, 12>>, <<28896112, 101373556, 13>>,
     <<27920439, 284287277, 13>>, <<27384618, 384861483, 13>>,
     <<2731692, 838215361, 12>>, <<2772109, 140298181, 12>>,
     <<2857538, 718611392, 12>>, <<29837631, 167484037, 13>>,
     <<3145355, 393855082, 12>>, <<33365158, 542813597, 13>>,
     <<3551680, 857148638, 12>>, <<37858549, 333014253, 13>>,
     <<40347250, 257320743, 13>>, <<4294642, 804526466, 12>>,
     <<4562544, 523975375, 12>> >>,
    <<
     <<4642231, 32890176, 12>>, <<4351229, 249367474, 12>>,
     <<4105891, 849295134, 12>>, <<39150168, 733286864, 13>>,
     <<37870005, 563502527, 13>>, <<37284212, 797785376, 13>>,
     <<37425841, 247440935, 13>>, <<3828671, 816343277, 12>>,
     <<3981962, 84162601, 12>>, <<41949885, 24153355, 13>>,
     <<4459050, 275266153, 12>>, <<4765485, 535917504, 12>>,
     <<5106450, 408253044, 12>>, <<5475242, 568070329, 12>>,
     <<5866327, 155823306, 12>>, <<6275213, 937955695, 12>>,
     <<6698283, 277784668, 12>>, <<419084, 839548044, 11>>,
     <<38729082, 33474715, 13>>, <<36008746, 470668766, 13>>,
     <<33861178, 872994465, 13>>, <<32402638, 165839317, 13>>,
     <<31729693, 111208085, 13>>, <<3189273, 26202527, 12>>,
     <<3287917, 215893857, 12>>, <<34617857, 806050474, 13>>,
     <<37001431, 629005033, 13>>, <<3991251, 278711568, 12>>,
     <<4324220, 248112239, 12>>, <<4689848, 977620068, 12>>,
     <<5080756, 380915324, 12>>, <<5491170, 653671288, 12>>,
     <<5916616, 484483579, 12>>, <<6353613, 899912995, 12>>,
     <<3763005, 585317054, 12>>, <<34148817, 555531186, 13>>,
     <<3111149, 611408492, 12>>, <<28663607, 380643466, 13>>,
     <<26969245, 602769442, 13>>, <<2617717, 646038458, 12>>,
     <<26369724, 479981714, 13>>, <<27526030, 629767956, 13>>,
     <<29531930, 768671737, 13>>, <<32227175, 502941827, 13>>,
     <<3545220, 465505214, 12>>, <<3907277, 825067606, 12>>,
     <<4298526, 572483958, 12>>, <<4711271, 456826248, 12>>,
     <<5139861, 286210334, 12>>, <<5580123, 453660166, 12>>,
     <<60289284, 968746615, 13>>, <<33678586, 865829684, 13>>,
     <<2986626, 839672214, 12>>, <<26453052, 136821416, 13>>,
     <<23618323, 856990014, 13>>, <<2159563, 908364642, 12>>,
     <<20628289, 84584135, 13>>, <<2086489, 431075404, 12>>,
     <<22266815, 99998203, 13>>, <<24634266, 560919814, 13>>,
     <<27718255, 710155986, 13>>, <<31304196, 852923806, 13>>,
     <<35234956, 682926804, 13>>, <<39402673, 280336435, 13>>,
     <<4373431, 807920336, 12>>, <<4817984, 192522902, 12>>,
     <<5270405, 699356985, 12>>, <<5728139, 39185833, 12>>,
     <<30184299, 292521573, 13>>, <<26029935, 940682517, 13>>,
     <<22185131, 454529287, 13>>, <<18848451, 305055287, 13>>,
     <<16341063, 102305677, 13>>, <<150870, 452526682, 11>>,
     <<15397792, 689425942, 13>>, <<17188213, 778883962, 13>>,
     <<20063767, 466558559, 13>>, <<23627975, 613740077, 13>>,
     <<27610893, 33161346, 13>>, <<31850536, 782564413, 13>>,
     <<36251023, 697446867, 13>>, <<40753796, 527546997, 13>>,
     <<453213, 435595654, 11>>, <<4992830, 46928971, 12>>,
     <<54556507, 225284295, 13>>, <<27324464, 294064574, 13>>,
     <<22866510, 673921525, 13>>, <<18579530, 999192498, 13>>,
     <<14626385, 674473133, 13>>, <<11371902, 478136521, 13>>,
     <<9566746, 934268522, 13>>, <<10030356, 563296809, 13>>,
     <<12512382, 624720017, 13>>, <<16102006, 230485003, 13>>,
     <<20212908, 904949275, 13>>, <<2457923, 847983248, 12>>,
     <<29079700, 942759678, 13>>, <<3365342, 368000509, 12>>,
     <<38266468, 675851706, 13>>, <<4289791, 536319305, 12>>,
     <<4753357, 580160133, 12>>, <<5216290, 902582951, 12>>,
     <<25316036, 341414683, 13>>, <<2068779, 502742918, 12>>,
     <<1608845, 540454143, 12>>, <<11568690, 851094573, 13>>,
     <<7296826, 396555576, 13>>, <<4151817, 431857739, 13>>,
     <<5088480, 607927383, 13>>, <<889890, 492587635, 12>>,
     <<13304812, 725144031, 13>>, <<1786520, 548881938, 12>>,
     <<22479410, 68579136, 13>>, <<27112353, 323214347, 13>>,
     <<31747592, 464134973, 13>>, <<36375435, 344723182, 13>>,
     <<4098900, 785016259, 12>>, <<4558268, 60089804, 12>>,
     <<5015133, 804193776, 12>>, <<243710, 967321616, 11>>,
     <<19821688, 805522751, 13>>, <<15267893, 841524333, 13>>,
     <<10722830, 246608555, 13>>, <<6229147, 553629552, 13>>,
     <<21826207, 242132307, 14>>, <<3598076, 692136664, 13>>,
     <<795798, 151294168, 12>>, <<12481648, 647841453, 13>>,
     <<17032501, 902542438, 13>>, <<21585639, 277264636, 13>>,
     <<26131356, 588115577, 13>>, <<30663784, 954370212, 13>>,
     <<35178290, 998178622, 13>>, <<3967063, 581365885, 12>>,
     <<4413662, 669714739, 12>>, <<4857193, 752073238, 12>>,
     <<2461273, 212833125, 12>>, <<20435943, 310079351, 13>>,
     <<1637108, 917382385, 12>>, <<12544547, 859458874, 13>>,
     <<9273415, 933583291, 13>>, <<7355365, 64753332, 13>>,
     <<7859305, 500246872, 13>>, <<10439209, 373464407, 13>>,
     <<13985592, 580319642, 13>>, <<17927287, 139762627, 13>>,
     <<22045320, 574283946, 13>>, <<2624788, 650801316, 12>>,
     <<30490323, 507628714, 13>>, <<34747615, 856745047, 13>>,
     <<39003837, 336279457, 13>>, <<4324759, 932472725, 12>>,
     <<4746987, 712952135, 12>>, <<2600782, 172351956, 12>>,
     <<22409043, 184463317, 13>>, <<19066887, 926238628, 13>>,
     <<16155245, 298718762, 13>>, <<139579, 617711711, 11>>,
     <<1285496, 884502971, 12>>, <<1312859, 330320786, 12>>,
     <<14701427, 201862844, 13>>, <<17217161, 890503398, 13>>,
     <<20322536, 84045307, 13>>, <<23779994, 240233805, 13>>,
     <<27447929, 288437595, 13>>, <<31242456, 448062394, 13>>,
     <<35111896, 970903576, 13>>, <<39022569, 643379074, 13>>,
     <<4295110, 296866193, 12>>, <<4688019, 408932983, 12>>,
     <<28386431, 254648132, 13>>, <<2542625, 913986883, 12>>,
     <<2279688, 990502845, 12>>, <<2063617, 923174204, 12>>,
     <<19112446, 607874656, 13>>, <<18390492, 266465199, 13>>,
     <<18566620, 928461282, 13>>, <<19616083, 368183029, 13>>,
     <<2140759, 627319153, 12>>, <<23768594, 518285495, 13>>,
     <<26540473, 756818387, 13>>, <<29599612, 676238567, 13>>,
     <<32856340, 595838333, 13>>, <<3624695, 239149599, 12>>,
     <<39725848, 218187493, 13>>, <<4325961, 522990707, 12>>,
     <<4682295, 991875437, 12>>, <<31526096, 887020813, 13>>,
     <<29164818, 875852075, 13>>, <<2713760, 567876478, 12>>,
     <<2553303, 358090297, 12>>, <<24441271, 938428463, 13>>,
     <<23937024, 891292012, 13>>, <<24059220, 984826097, 13>>,
     <<247981, 456074555, 11>>, <<26098799, 908710203, 13>>,
     <<2787806, 681952666, 12>>, <<30044773, 733696397, 13>>,
     <<3251388, 692247826, 12>>, <<35212975, 618187083, 13>>,
     <<3808325, 52733274, 12>>, <<4107798, 619915539, 12>>,
     <<4416015, 976693353, 12>>, <<4730017, 485800388, 12>>,
     <<3522305, 551755512, 12>>, <<33382611, 400451506, 13>>,
     <<31839815, 225906264, 13>>, <<30646860, 536951594, 13>>,
     <<29851141, 956179927, 13>>, <<2948835, 89093919, 12>>,
     <<29575983, 274408377, 13>>, <<301097, 387347948, 11>>,
     <<3106443, 148546066, 12>>, <<32398988, 22519125, 13>>,
     <<3406338, 562401525, 12>>, <<36005150, 873639845, 13>>,
     <<38174015, 823084583, 13>>, <<40524492, 236956585, 13>>,
     <<4301680, 911118416, 12>>, <<4561682, 822486006, 12>>,
     <<4829544, 474572954, 12>> >>,
    <<
     <<4642231, 32890176, 12>>, <<4351229, 249367474, 12>>,
     <<4105891, 849295134, 12>>, <<39150168, 733286864, 13>>,
     <<37870005, 563502527, 13>>, <<37284212, 797785376, 13>>,
     <<37425841, 247440935, 13>>, <<3828671, 816343277, 12>>,
     <<3981962, 84162601, 12>>, <<41949885, 24153355, 13>>,
     <<4459050, 275266153, 12>>, <<4765485, 535917504, 12>>,
     <<5106450, 408253044, 12>>, <<5475242, 568070329, 12>>,
     <<5866327, 155823306, 12>>, <<6275213, 937955695, 12>>,
     <<6698283, 277784668, 12>>, <<419084, 839548044, 11>>,
     <<38729082, 33474715, 13>>, <<36008746, 470668766, 13>>,
     <<33861178, 872994465, 13>>, <<32402638, 165839317, 13>>,
     <<31729693, 111208085, 13>>, <<3189273, 26202527, 12>>,
     <<3287917, 215893857, 12>>, <<34617857, 806050474, 13>>,
     <<37001431, 629005033, 13>>, <<3991251, 278711568, 12>>,
     <<4324220, 248112239, 12>>, <<4689848, 977620068, 12>>,
     <<5080756, 380915324, 12>>, <<5491170, 653671288, 12>>,
     <<5916616, 484483579, 12>>, <<6353613, 899912995, 12>>,
     <<3763005, 585317054, 12>>, <<34148817, 555531186, 13>>,
     <<3111149, 611408492, 12>>, <<28663607, 380643466, 13>>,
     <<26969245, 602769442, 13>>, <<2617717, 646038458, 12>>,
     <<26369724, 479981714, 13>>, <<27526030, 629767956, 13>>,
     <<29531930, 768671737, 13>>, <<32227175, 502941827, 13>>,
     <<3545220, 465505214, 12>>, <<3907277, 825067606, 12>>,
     <<4298526, 572483958, 12>>, <<4711271, 456826248, 12>>,
     <<5139861, 286210334, 12>>, <<5580123, 453660166, 12>>,
     <<60289284, 968746615, 13>>, <<33678586, 865829684, 13>>,
     <<2986626, 839672214, 12>>, <<26453052, 136821416, 13>>,
     <<23618323, 856990014, 13>>, <<2159563, 908364642, 12>>,
     <<20628289, 84584135, 13>>, <<2086489, 431075404, 12>>,
     <<22266815, 99998203, 13>>, <<24634266, 560919814, 13>>,
     <<27718255, 710155986, 13>>, <<31304196, 852923806, 13>>,
     <<35234956, 682926804, 13>>, <<39402673, 280336435, 13>>,
     <<4373431, 807920336, 12>>, <<4817984, 192522902, 12>>,
     <<5270405, 699356985, 12>>, <<5728139, 39185833, 12>>,
     <<30184299, 292521573, 13>>, <<26029935, 940682517, 13>>,
     <<22185131, 454529287, 13>>, <<18848451, 305055287, 13>>,
     <<16341063, 102305677, 13>>, <<150870, 452526682, 11>>,
     <<15397792, 689425942, 13>>, <<17188213, 778883962, 13>>,
     <<20063767, 466558559, 13>>, <<23627975, 613740077, 13>>,
     <<27610893, 33161346, 13>>, <<31850536, 782564413, 13>>,
     <<36251023, 697446867, 13>>, <<40753796, 527546997, 13>>,
     <<453213, 435595654, 11>>, <<4992830, 46928971, 12>>,
     <<54556507, 225284295, 13>>, <<27324464, 294064574, 13>>,
     <<22866510, 673921525, 13>>, <<18579530, 999192498, 13>>,
     <<14626385, 674473133, 13>>, <<11371902, 478136521, 13>>,
     <<9566746, 934268522, 13>>, <<10030356, 563296809, 13>>,
     <<12512382, 624720017, 13>>, <<16102006, 230485003, 13>>,
     <<20212908, 904949275, 13>>, <<2457923, 847983248, 12>>,
     <<29079700, 942759678, 13>>, <<3365342, 368000509, 12>>,
     <<38266468, 675851706, 13>>, <<4289791, 536319305, 12>>,
     <<4753357, 580160133, 12>>, <<5216290, 902582951, 12>>,
     <<25316036, 341414683, 13>>, <<2068779, 502742918, 12>>,
     <<1608845, 540454143, 12>>, <<11568690, 851094573, 13>>,
     <<7296826, 396555576, 13>>, <<4151817, 431857739, 13>>,
     <<5088480, 607927383, 13>>, <<889890, 492587635, 12>>,
     <<13304812, 725144031, 13>>, <<1786520, 548881938, 12>>,
     <<22479410, 68579136, 13>>, <<27112353, 323214347, 13>>,
     <<31747592, 464134973, 13>>, <<36375435, 344723182, 13>>,
     <<4098900, 785016259, 12>>, <<4558268, 60089804, 12>>,
     <<5015133, 804193776, 12>>, <<243710, 967321616, 11>>,
     <<19821688, 805522751, 13>>, <<15267893, 841524333, 13>>,
     <<10722830, 246608555, 13>>, <<6229147, 553629552, 13>>,
     <<21826207, 242132307, 14>>, <<3598076, 692136664, 13>>,
     <<795798, 151294168, 12>>, <<12481648, 647841453, 13>>,
     <<17032501, 902542438, 13>>, <<21585639, 277264636, 13>>,
     <<26131356, 588115577, 13>>, <<30663784, 954370212, 13>>,
     <<35178290, 998178622, 13>>, <<3967063, 581365885, 12>>,
     <<4413662, 669714739, 12>>, <<4857193, 752073238, 12>>,
     <<2461273, 212833125, 12>>, <<20435943, 310079351, 13>>,
     <<1637108, 917382385, 12>>, <<12544547, 859458874, 13>>,
     <<9273415, 933583291, 13>>, <<7355365, 64753332, 13>>,
     <<7859305, 500246872, 13>>, <<10439209, 373464407, 13>>,
     <<13985592, 580319642, 13>>, <<17927287, 139762627, 13>>,
     <<22045320, 574283946, 13>>, <<2624788, 650801316, 12>>,
     <<30490323, 507628714, 13>>, <<34747615, 856745047, 13>>,
     <<39003837, 336279457, 13>>, <<4324759, 932472725, 12>>,
     <<4746987, 712952135, 12>>, <<2600782, 172351956, 12>>,
     <<22409043, 184463317, 13>>, <<19066887, 926238628, 13>>,
     <<16155245, 298718762, 13>>, <<139579, 617711711, 11>>,
     <<1285496, 884502971, 12>>, <<1312859, 330320786, 12>>,
     <<14701427, 201862844, 13>>, <<17217161, 890503398, 13>>,
     <<20322536, 84045307, 13>>, <<23779994, 240233805, 13>>,
     <<27447929, 288437595, 13>>, <<31242456, 448062394, 13>>,
     <<35111896, 970903576, 13>>, <<39022569, 643379074, 13>>,
     <<4295110, 296866193, 12>>, <<4688019, 408932983, 12>>,
     <<28386431, 254648132, 13>>, <<2542625, 913986883, 12>>,
     <<2279688, 990502845, 12>>, <<2063617, 923174204, 12>>,
     <<19112446, 607874656, 13>>, <<18390492, 266465199, 13>>,
     <<18566620, 928461282, 13>>, <<19616083, 368183029, 13>>,
     <<2140759, 627319153, 12>>, <<23768594, 518285495, 13>>,
     <<26540473, 756818387, 13>>, <<29599612, 676238567, 13>>,
     <<32856340, 595838333, 13>>, <<3624695, 239149599, 12>>,
     <<39725848, 218187493, 13>>, <<4325961, 522990707, 12>>,
     <<4682295, 991875437, 12>>, <<31526096, 887020813, 13>>,
     <<29164818, 875852075, 13>>, <<2713760, 567876478, 12>>,
     <<2553303, 358090297, 12>>, <<24441271, 938428463, 13>>,
     <<23937024, 891292012, 13>>, <<24059220, 984826097, 13>>,
     <<247981, 456074555, 11>>, <<26098799, 908710203, 13>>,
     <<2787806, 681952666, 12>>, <<30044773, 733696397, 13>>,
     <<3251388, 692247826, 12>>, <<35212975, 618187083, 13>>,
     <<3808325, 52733274, 12>>, <<4107798, 619915539, 12>>,
     <<4416015, 976693353, 12>>, <<4730017, 485800388, 12>>,
     <<3522305, 551755512, 12>>, <<33382611, 400451506, 13>>,
     <<31839815, 225906264, 13>>, <<30646860, 536951594, 13>>,
     <<29851141, 956179927, 13>>, <<2948835, 89093919, 12>>,
     <<29575983, 274408377, 13>>, <<301097, 387347948, 11>>,
     <<3106443, 148546066, 12>>, <<32398988, 22519125, 13>>,
     <<3406338, 562401525, 12>>, <<36005150, 873639845, 13>>,
     <<38174015, 823084583, 13>>, <<40524492, 236956585, 13>>,
     <<4301680, 911118416, 12>>, <<4561682, 822486006, 12>>,
     <<4829544, 474572954, 12>> >>,
    <<
     <<4623825, 848221294, 12>>, <<43306161, 223667505, 13>>,
     <<40831470, 555970054, 13>>, <<38903600, 119175985, 13>>,
     <<37608251, 850882793, 13>>, <<3701287, 169339317, 12>>,
     <<37151559, 377556814, 13>>, <<38016184, 413177943, 13>>,
     <<39558581, 601337496, 13>>, <<4170256, 713533813, 12>>,
     <<44359538, 598302715, 13>>, <<4744154, 785472938, 12>>,
     <<508692, 106267386, 11>>, <<5457491, 369781159, 12>>,
     <<5850298, 841660471, 12>>, <<6260839, 454098806, 12>>,
     <<6685491, 109908007, 12>>, <<4174132, 901340319, 12>>,
     <<38536998, 591443353, 13>>, <<3579170, 245853204, 12>>,
     <<3362094, 784176534, 12>>, <<32143519, 90321533, 13>>,
     <<31458660, 695608583, 13>>, <<3161853, 765723689, 12>>,
     <<3261058, 913119282, 12>>, <<3436197, 861384908, 12>>,
     <<3676288, 804770572, 12>>, <<3969363, 737151988, 12>>,
     <<430436, 619676261, 11>>, <<4671994, 771444617, 12>>,
     <<5064817, 939209205, 12>>, <<5477045, 87196664, 12>>,
     <<5904199, 977216063, 12>>, <<6342810, 848218185, 12>>,
     <<3748451, 878390749, 12>>, <<33975573, 595805226, 13>>,
     <<3090911, 477271341, 12>>, <<284327, 209757216, 11>>,
     <<2671411, 607821784, 12>>, <<25906596, 819253937, 13>>,
     <<26095779, 311431647, 13>>, <<27260722, 721327925, 13>>,
     <<29284041, 52025327, 13>>, <<3200134, 672171883, 12>>,
     <<35249841, 86109313, 13>>, <<3889339, 667554962, 12>>,
     <<4282753, 15702371, 12>>, <<4697504, 28707351, 12>>,
     <<512794, 640308961, 11>>, <<5569924, 842697651, 12>>,
     <<6020330, 971022705, 12>>, <<33561050, 444093466, 13>>,
     <<2971894, 994085344, 12>>, <<26272308, 880234796, 13>>,
     <<23402247, 876580027, 13>>, <<21347171, 344217704, 13>>,
     <<20358445, 903854001, 13>>, <<20591587, 865805723, 13>>,
     <<22007513, 365234568, 13>>, <<24399546, 579289777, 13>>,
     <<27511571, 209044546, 13>>, <<31124856, 583149526, 13>>,
     <<3508066, 481454692, 12>>, <<39270849, 997868318, 13>>,
     <<4362262, 15933142, 12>>, <<480863, 85835737, 11>>,
     <<5262710, 958036599, 12>>, <<5721978, 577667263, 12>>,
     <<3010308, 281067353, 12>>, <<25918877, 249104726, 13>>,
     <<2203774, 627157433, 12>>, <<1865800, 170249193, 12>>,
     <<16105406, 919137622, 13>>, <<14818613, 430247299, 13>>,
     <<15126291, 931981962, 13>>, <<16941368, 802217714, 13>>,
     <<19852354, 436422163, 13>>, <<2345108, 275915382, 12>>,
     <<2746400, 76357926, 12>>, <<3172907, 512813732, 12>>,
     <<3615127, 682328649, 12>>, <<40672933, 109574215, 13>>,
     <<4525724, 925226824, 12>>, <<4987940, 570839865, 12>>,
     <<545216, 513063469, 11>>, <<27289453, 144519443, 13>>,
     <<22805717, 981679454, 13>>, <<18484665, 570499048, 13>>,
     <<14484443, 635527218, 13>>, <<1116669, 258652011, 12>>,
     <<9301985, 15105146, 13>>, <<9765469, 130120607, 13>>,
     <<12295988, 351394835, 13>>, <<15934420, 800264975, 13>>,
     <<20082783, 920613035, 13>>, <<2447751, 397397239, 12>>,
     <<29000384, 712110435, 13>>, <<33592607, 101349404, 13>>,
     <<3822155, 169114457, 12>>, <<4286712, 956239456, 12>>,
     <<4751569, 936907554, 12>>, <<5215709, 345122566, 12>>,
     <<2533674, 655055746, 12>>, <<20692630, 971958292, 13>>,
     <<16072133, 886653994, 13>>, <<11519879, 2680568, 13>>,
     <<718588, 592777381, 12>>, <<3908110, 307561948, 13>>,
     <<4867568, 865138029, 13>>, <<8768065, 570597561, 13>>,
     <<13218110, 206228487, 13>>, <<17804589, 641042446, 13>>,
     <<22437169, 661862467, 13>>, <<270846, 268450932, 11>>,
     <<317322, 243336017, 11>>, <<3637113, 704154791, 12>>,
     <<4099498, 16014574, 12>>, <<4559842, 438647169, 12>>,
     <<5017655, 138304269, 12>>, <<24452744, 988563686, 13>>,
     <<19901243, 257493313, 13>>, <<1534809, 830870597, 12>>,
     <<10809765, 772507885, 13>>, <<6341238, 249680796, 13>>,
     <<2414659, 904068091, 13>>, <<371370, 371342274, 12>>,
     <<8004699, 750784375, 13>>, <<12512403, 111935168, 13>>,
     <<1705935, 836907429, 12>>, <<2161314, 439643491, 12>>,
     <<26161734, 515615253, 13>>, <<3069831, 970060185, 12>>,
     <<35217819, 916277613, 13>>, <<3971576, 140448029, 12>>,
     <<441878, 198446069, 11>>, <<4862959, 272788943, 12>>,
     <<24752489, 921445376, 13>>, <<20584721, 795460077, 13>>,
     <<16535944, 788172694, 13>>, <<12736965, 816427323, 13>>,
     <<9508852, 430857137, 13>>, <<762880, 750971538, 12>>,
     <<8103057, 694628437, 13>>, <<1061981, 440318311, 12>>,
     <<1412205, 976029784, 12>>, <<18038207, 504907068, 13>>,
     <<22141852, 394000966, 13>>, <<26336620, 488452213, 13>>,
     <<3057536, 366109881, 12>>, <<34831674, 791713867, 13>>,
     <<3908880, 973096567, 12>>, <<4333487, 578168267, 12>>,
     <<4756052, 481738227, 12>>, <<26195291, 172356697, 13>>,
     <<22609583, 413396012, 13>>, <<19285461, 428469357, 13>>,
     <<16396425, 316301554, 13>>, <<14221706, 406560097, 13>>,
     <<1312926, 637121021, 12>>, <<1339017, 572464534, 12>>,
     <<14932956, 342068721, 13>>, <<17416431, 708877801, 13>>,
     <<20495463, 97839165, 13>>, <<2393369, 847557094, 12>>,
     <<27588357, 607662356, 13>>, <<31374126, 125399694, 13>>,
     <<35238175, 353509982, 13>>, <<3914598, 840185562, 12>>,
     <<4307360, 193601803, 12>>, <<470032, 937664801, 11>>,
     <<28608333, 230437775, 13>>, <<25659875, 302127757, 13>>,
     <<2304402, 211272998, 12>>, <<20896941, 959278843, 13>>,
     <<19383631, 377581712, 13>>, <<1866459, 896905392, 12>>,
     <<1883355, 491044052, 12>>, <<19867308, 684317472, 13>>,
     <<21639098, 208679625, 13>>, <<23980593, 360869902, 13>>,
     <<2673554, 17781032, 12>>, <<29781073, 2205394, 13>>,
     <<33027438, 49912175, 13>>, <<36410534, 479516314, 13>>,
     <<39884309, 935196698, 13>>, <<4341494, 67815578, 12>>,
     <<4697679, 53283136, 12>>, <<31770662, 499823316, 13>>,
     <<29417822, 451692373, 13>>, <<2739912, 177844739, 12>>,
     <<25801910, 43639673, 13>>, <<24714765, 596942784, 13>>,
     <<24210893, 629308575, 13>>, <<243285, 135326713, 11>>,
     <<25058437, 854439903, 13>>, <<26347, 196060485, 10>>,
     <<28113485, 785575535, 13>>, <<3026761, 802300078, 12>>,
     <<3272548, 448432847, 12>>, <<35415088, 113920506, 13>>,
     <<3827774, 586378834, 12>>, <<4126665, 830651561, 12>>,
     <<4434464, 708532504, 12>>, <<4748193, 521762216, 12>>,
     <<3548165, 97322509, 12>>, <<33646500, 225880463, 13>>,
     <<32108509, 628974043, 13>>, <<30919216, 212002957, 13>>,
     <<3012533, 360636424, 12>>, <<29762018, 32982405, 13>>,
     <<29846555, 273063614, 13>>, <<3037485, 230041395, 12>>,
     <<3132229, 240587187, 12>>, <<3264855, 983072209, 12>>,
     <<3430438, 427615073, 12>>, <<3623790, 641138353, 12>>,
     <<383992, 845189074, 11>>, <<4074328, 33283728, 12>>,
     <<4323023, 602010887, 12>>, <<45826033, 158823775, 13>>,
     <<48501529, 435668335, 13>> >> >>

\* the double of an entry of the tables
Distance(t) ==
    IF t[1] < 2 \/ (t[1] = 2 /\ t[2] <= 147483647)
    THEN FNorm(t[1] * 1000000000 + t[2], t[3])
    ELSE [nan |-> FALSE, inf |-> 0, nz |-> FALSE, m |-> t[1], e |-> t[3],
          lo |-> t[2]]

\* the rows of KOREA_REGION_CENTERS that hold the place lat, lon
RowsAt(lat, lon) ==
    {i \in 1..Len(KOREA_REGION_CENTERS) :
        KOREA_REGION_CENTERS[i].lat = lat /\ KOREA_REGION_CENTERS[i].lon = lon}

\* a point of ToGrid; -0.0 is 0.0 to every step of haversine_km
OnGrid(lat, lon) ==
    /\ ~lat.nan /\ lat.inf = 0 /\ lat.e = 0 /\ lat.m \in 0..60 /\ lat.m % 5 = 0
    /\ ~lon.nan /\ lon.inf = 0 /\ lon.e = 0 /\ lon.m \in 100..180
    /\ lon.m % 5 = 0

GridPlace(lat, lon) == (lat.m \div 5) * 17 + (lon.m - 100) \div 5 + 1

\* the distance kept from the i-th centre to lat2, lon2
Kept(i, lat2, lon2) ==
    CASE RowsAt(lat2, lon2) # {} -> ToCentres[i][Least(RowsAt(lat2, lon2))]
      [] RowsAt(lat2, lon2) = {} /\ OnGrid(lat2, lon2)
            -> ToGrid[i][GridPlace(lat2, lon2)]

\* what haversine_km gives when math.sin or math.cos raises
ValueError == [exc |-> "ValueError"]

Raised(x) == "exc" \in DOMAIN x

\* math.sin and math.cos take a NaN and raise ValueError of an infinity:
\* cos of an infinite latitude, sin of the half of an infinite difference
\* of the longitudes (inf - inf is NaN)
OfInfinity(lat1, lon1, lat2, lon2) ==
    \/ lat1.inf # 0
    \/ lat2.inf # 0
    \/ ~lon1.nan /\ ~lon2.nan /\ lon1.inf # lon2.inf

\* a NaN among the terms makes every later step NaN, math.sqrt(nan) too
NaNTerm(lat1, lon1, lat2, lon2) ==
    lat1.nan \/ lon1.nan \/ lat2.nan \/ lon2.nan \/ lon1.inf # 0

\* the tables hold the distance from lat1, lon1 to lat2, lon2
Tabled(lat1, lon1, lat2, lon2) ==
    /\ RowsAt(lat1, lon1) # {}
    /\ RowsAt(lat2, lon2) # {} \/ OnGrid(lat2, lon2)

\* haversine_km raises ValueError.  Of numbers it does so when the rounding
\* leaves a over 1, at math.sqrt(1 - a), as between some places that are
\* nearly antipodes: between the places of the tables it does not, and of
\* other numbers the model does not tell whether it does.
MathDomainError(lat1, lon1, lat2, lon2) ==
    CASE OfInfinity(lat1, lon1, lat2, lon2) -> TRUE
      [] ~OfInfinity(lat1, lon1, lat2, lon2) /\ NaNTerm(lat1, lon1, lat2, lon2)
            -> FALSE
      [] /\ ~OfInfinity(lat1, lon1, lat2, lon2)
         /\ ~NaNTerm(lat1, lon1, lat2, lon2)
         /\ Tabled(lat1, lon1, lat2, lon2)
            -> FALSE

haversine_km(lat1, lon1, lat2, lon2) ==
    IF MathDomainError(lat1, lon1, lat2, lon2) THEN ValueError
    ELSE IF NaNTerm(lat1, lon1, lat2, lon2) THEN FNaN
    ELSE Distance(Kept(Least(RowsAt(lat1, lon1)), lat2, lon2))

Wide(x) == "lo" \in DOMAIN x

\* the decimal digits of n > 0, and none of 0
RECURSIVE DigitsOf(_)
DigitsOf(n) == IF n = 0 THEN <<>> ELSE Append(DigitsOf(n \div 10), n % 10)

Zeros(k) == [i \in 1..k |-> 0]

\* the digits of |x|, the first of them not 0
Digits(x) ==
    IF Wide(x)
    THEN DigitsOf(x.m) \o Zeros(9 - Len(DigitsOf(x.lo))) \o DigitsOf(x.lo)
    ELSE DigitsOf(Abs(x.m))

\* how many digits |x| has before the point
WholeLen(x) == Max(Len(Digits(x)) - x.e, 0)

\* the digits of |x| from the place of 10^(w - 1) to the place of 10^-f
Aligned(x, w, f) ==
    Zeros(w + x.e - Len(Digits(x))) \o Digits(x) \o Zeros(f - x.e)

\* s < t of two rows of digits of one length
DigitsLess(s, t) ==
    \E i \in 1..Len(s) : s[i] < t[i] /\ \A j \in 1..(i - 1) : s[j] = t[j]

\* |a| < |b| of two numbers
Smaller(a, b) ==
    DigitsLess(Aligned(a, Max(WholeLen(a), WholeLen(b)), Max(a.e, b.e)),
               Aligned(b, Max(WholeLen(a), WholeLen(b)), Max(a.e, b.e)))

Negative(x) == ~Wide(x) /\ x.m < 0

\* a < b of two floats: False when either is NaN
FLess(a, b) ==
    /\ ~a.nan /\ ~b.nan
    /\ IF a.inf # 0 \/ b.inf # 0 THEN a.inf < b.inf
       ELSE IF Negative(a) # Negative(b) THEN Negative(a)
       ELSE IF Negative(a) THEN Smaller(b, a)
       ELSE Smaller(a, b)

RECURSIVE Bits(_)
Bits(n) == IF n = 0 THEN 0 ELSE 1 + Bits(n \div 2)

\* the binary place of r / 20 that holds its first one, for 0 < r < 20
RECURSIVE LeadingPlace(_)
LeadingPlace(r) == IF 2 * r >= 20 THEN 1 ELSE 1 + LeadingPlace(2 * r)

\* the binary places a double keeps of n / 20: 53 bits from the first one
PlacesKept(n) ==
    IF n \div 20 > 0 THEN 53 - Bits(n \div 20) ELSE 52 + LeadingPlace(n % 20)

\* 2^k mod 20, for k >= 2
Pow2Mod20(k) == CASE k % 4 = 2 -> 4 [] k % 4 = 3 -> 8 [] k % 4 = 0 -> 16 [] k % 4 = 1 -> 12

\* what n / 20 leaves beyond the places kept, in twentieths of the last one:
\* over ten and the double nearest to n / 20 is the one above it
Beyond(n) == ((n % 20) * Pow2Mod20(PlacesKept(n))) % 20

\* q + 1/2 tenths, held as the double nearest to n / 20, to a whole number of
\* tenths: a half to the even one when the double is n / 20, and else to the
\* side the double lies on
RoundHalf(q, n) ==
    IF n % 5 = 0 THEN (IF q % 2 = 1 THEN q + 1 ELSE q)
    ELSE IF Beyond(n) > 10 THEN q + 1 ELSE q

\* m / 10^e to a whole number of tenths, for m >= 0 and e >= 2
Tenths(m, e) ==
    IF e = 2 /\ m % 10 = 5 THEN RoundHalf(m \div 10, m \div 5)
    ELSE IF 2 * (m % Pow10(e - 1)) > Pow10(e - 1) THEN m \div Pow10(e - 1) + 1
    ELSE m \div Pow10(e - 1)

\* t tenths; with neg, minus that
TenthsOf(neg, t) ==
    IF neg THEN [FNorm(0 - t, 1) EXCEPT !.nz = (t = 0)] ELSE FNorm(t, 1)

\* the number the digits ds write
RECURSIVE NumberOf(_)
NumberOf(ds) ==
    IF ds = <<>> THEN 0
    ELSE 10 * NumberOf(SubSeq(ds, 1, Len(ds) - 1)) + ds[Len(ds)]

\* the digits of x down to the tenths, and one more when the hundredths are
\* five or over
TenthsOfDigits(ds, w) ==
    NumberOf(SubSeq(ds, 1, w + 1)) + (IF ds[w + 2] >= 5 THEN 1 ELSE 0)

\* a double held with lo, of three places or more, to a whole number of
\* tenths: a half of a tenth has fewer digits than the double, so repr()
\* would have written it had it been as near, and the double and its digits
\* lie on one side of it
WideTenths(x) == TenthsOfDigits(Aligned(x, WholeLen(x), x.e), WholeLen(x))

\* round(x, 1); a number of the model's integers with eleven places or more
\* is under half a tenth
Round1(x) ==
    IF x.nan \/ x.inf # 0 \/ x.e <= 1 THEN x
    ELSE IF Wide(x) THEN CASE x.e >= 3 -> TenthsOf(FALSE, WideTenths(x))
    ELSE IF x.e >= 11 THEN TenthsOf(x.m < 0, 0)
    ELSE TenthsOf(x.m < 0, Tenths(Abs(x.m), x.e))

(***************************************************************************)
(* _summarize_track_near_location and _fmt_dt14_kst.                       *)
(***************************************************************************)
\* dt.strftime("%Y-%m-%d %H:%M"); %Y is the year with no padding
Strftime(dt) ==
    NatToStr(dt[1]) \o <<"-">> \o Pad(NatToStr(dt[2]), 2) \o <<"-">>
        \o Pad(NatToStr(dt[3]), 2) \o <<" ">> \o Pad(NatToStr(dt[4]), 2)
        \o <<":">> \o Pad(NatToStr(dt[5]), 2)

_fmt_dt14_kst(typ_tm) ==
    IF Strptime(typ_tm) = NoDt THEN typ_tm ELSE Strftime(Strptime(typ_tm))

\* dt - timedelta(hours=6), None where it raises OverflowError
MinusSixHours(dt) ==
    IF dt[4] >= 6 THEN [dt EXCEPT ![4] = @ - 6]
    ELSE IF dt[3] > 1 THEN [dt EXCEPT ![3] = @ - 1, ![4] = @ + 18]
    ELSE IF dt[2] > 1
    THEN [dt EXCEPT ![2] = @ - 1, ![3] = DaysInMonth(dt[1], dt[2] - 1), ![4] = @ + 18]
    ELSE IF dt[1] > 1 THEN <<dt[1] - 1, 12, 31, dt[4] + 18, dt[5]>>
    ELSE NoDt

\* dt + timedelta(hours=6), None where it raises OverflowError
PlusSixHours(dt) ==
    IF dt[4] < 18 THEN [dt EXCEPT ![4] = @ + 6]
    ELSE IF dt[3] < DaysInMonth(dt[1], dt[2])
    THEN [dt EXCEPT ![3] = @ + 1, ![4] = @ - 18]
    ELSE IF dt[2] < 12 THEN [dt EXCEPT ![2] = @ + 1, ![3] = 1, ![4] = @ - 18]
    ELSE IF dt[1] < 9999 THEN <<dt[1] + 1, 1, 1, dt[4] - 18, dt[5]>>
    ELSE NoDt

NoWindow == [none |-> TRUE, start |-> <<>>, end |-> <<>>, center |-> <<>>]

Window(start, end, dt) ==
    IF start = NoDt \/ end = NoDt THEN NoWindow
    ELSE [none |-> FALSE, start |-> Strftime(start), end |-> Strftime(end),
          center |-> Strftime(dt)]

WindowAt(dt) ==
    IF dt = NoDt THEN NoWindow ELSE Window(MinusSixHours(dt), PlusSixHours(dt), dt)

NoPoint == [typTm |-> <<>>, lat |-> FNaN, lon |-> FNaN, typLoc |-> JNull]

\* best = None; at is the place in the scan of the point best holds
NoBest == [none |-> TRUE, dist_km |-> FNaN, p |-> NoPoint, at |-> 0]

\* if best is None or dist < best["dist_km"]
Closer(best, dist, p, i) ==
    IF best.none \/ FLess(dist, best.dist_km)
    THEN [none |-> FALSE, dist_km |-> dist, p |-> p, at |-> i]
    ELSE best

\* the loop: best after it, or the ValueError haversine_km raises out of it
RECURSIVE Scan(_, _, _, _, _)
Scan(points, i, best, loc_lat, loc_lon) ==
    IF i > Len(points) THEN best
    ELSE IF Raised(haversine_km(loc_lat, loc_lon, points[i].lat, points[i].lon))
    THEN ValueError
    ELSE Scan(points, i + 1,
              Closer(best, haversine_km(loc_lat, loc_lon, points[i].lat, points[i].lon),
                     points[i], i),
              loc_lat, loc_lon)

NoClosest ==
    [none |-> TRUE, time |-> <<>>, distance_km |-> FNaN, typhoon_lat |-> FNaN,
     typhoon_lon |-> FNaN, typLoc |-> JNull]

\* the dict returned, or the ValueError raised out of the loop
Summarized(best) ==
    IF Raised(best) THEN ValueError
    ELSE IF best.none THEN [closest |-> NoClosest, impact_window |-> NoWindow]
    ELSE [closest |-> [none |-> FALSE, time |-> _fmt_dt14_kst(best.p.typTm),
                       distance_km |-> Round1(best.dist_km),
                       typhoon_lat |-> best.p.lat, typhoon_lon |-> best.p.lon,
                       typLoc |-> best.p.typLoc],
          impact_window |-> WindowAt(Strptime(best.p.typTm))]

_summarize_track_near_location(points, loc_lat, loc_lon) ==
    Summarized(Scan(points, 1, NoBest, loc_lat, loc_lon))

(***************************************************************************)
(* tool_search_past_typhoons.  srch holds the locals of the running call   *)
(* and, as history, the years it asked list_unique_typhoons_in_range for,  *)
(* the number of matches of each year read, and what the last read gave.   *)
(* op holds the read of the year being asked.                              *)
(***************************************************************************)
MaxYearsBack == 2

\* max_pages: int = 20
DefaultMaxPages == 20

\* matches[:30], all_matches[:30]
ResultCap == 30

\* max(today.year - max_years_back, 1950)
FirstYear == 1950

\* str.lower(), by the simple lower-case mappings of Unicode 14: runs of
\* code points <<first, last, step, lower of first>>, the lower-case forms
\* stepping as the letters do
LowerRuns ==
    << <<65, 90, 1, 97>>, <<192, 214, 1, 224>>, <<216, 222, 1, 248>>,
       <<256, 302, 2, 257>>, <<306, 310, 2, 307>>, <<313, 327, 2, 314>>,
       <<330, 374, 2, 331>>, <<376, 376, 1, 255>>, <<377, 381, 2, 378>>,
       <<385, 385, 1, 595>>, <<386, 388, 2, 387>>, <<390, 390, 1, 596>>,
       <<391, 391, 1, 392>>, <<393, 394, 1, 598>>, <<395, 395, 1, 396>>,
       <<398, 398, 1, 477>>, <<399, 399, 1, 601>>, <<400, 400, 1, 603>>,
       <<401, 401, 1, 402>>, <<403, 403, 1, 608>>, <<404, 404, 1, 611>>,
       <<406, 406, 1, 617>>, <<407, 407, 1, 616>>, <<408, 408, 1, 409>>,
       <<412, 412, 1, 623>>, <<413, 413, 1, 626>>, <<415, 415, 1, 629>>,
       <<416, 420, 2, 417>>, <<422, 422, 1, 640>>, <<423, 423, 1, 424>>,
       <<425, 425, 1, 643>>, <<428, 428, 1, 429>>, <<430, 430, 1, 648>>,
       <<431, 431, 1, 432>>, <<433, 434, 1, 650>>, <<435, 437, 2, 436>>,
       <<439, 439, 1, 658>>, <<440, 440, 1, 441>>, <<444, 444, 1, 445>>,
       <<452, 452, 1, 454>>, <<453, 453, 1, 454>>, <<455, 455, 1, 457>>,
       <<456, 456, 1, 457>>, <<458, 458, 1, 460>>, <<459, 475, 2, 460>>,
       <<478, 494, 2, 479>>, <<497, 497, 1, 499>>, <<498, 500, 2, 499>>,
       <<502, 502, 1, 405>>, <<503, 503, 1, 447>>, <<504, 542, 2, 505>>,
       <<544, 544, 1, 414>>, <<546, 562, 2, 547>>, <<570, 570, 1, 11365>>,
       <<571, 571, 1, 572>>, <<573, 573, 1, 410>>, <<574, 574, 1, 11366>>,
       <<577, 577, 1, 578>>, <<579, 579, 1, 384>>, <<580, 580, 1, 649>>,
       <<581, 581, 1, 652>>, <<582, 590, 2, 583>>, <<880, 882, 2, 881>>,
       <<886, 886, 1, 887>>, <<895, 895, 1, 1011>>, <<902, 902, 1, 940>>,
       <<904, 906, 1, 941>>, <<908, 908, 1, 972>>, <<910, 911, 1, 973>>,
       <<913, 929, 1, 945>>, <<931, 939, 1, 963>>,
       <<975, 975, 1, 983>>, <<984, 1006, 2, 985>>,
       <<1012, 1012, 1, 952>>, <<1015, 1015, 1, 1016>>,
       <<1017, 1017, 1, 1010>>, <<1018, 1018, 1, 1019>>,
       <<1021, 1023, 1, 891>>, <<1024, 1039, 1, 1104>>,
       <<1040, 1071, 1, 1072>>, <<1120, 1152, 2, 1121>>,
       <<1162, 1214, 2, 1163>>, <<1216, 1216, 1, 1231>>,
       <<1217, 1229, 2, 1218>>, <<1232, 1326, 2, 1233>>,
       <<1329, 1366, 1, 1377>>, <<4256, 4293, 1, 11520>>,
       <<4295, 4295, 1, 11559>>, <<4301, 4301, 1, 11565>>,
       <<5024, 5103, 1, 43888>>, <<5104, 5109, 1, 5112>>,
       <<7312, 7354, 1, 4304>>, <<7357, 7359, 1, 4349>>,
       <<7680, 7828, 2, 7681>>, <<7838, 7838, 1, 223>>,
       <<7840, 7934, 2, 7841>>, <<7944, 7951, 1, 7936>>,
       <<7960, 7965, 1, 7952>>, <<7976, 7983, 1, 7968>>,
       <<7992, 7999, 1, 7984>>, <<8008, 8013, 1, 8000>>,
       <<8025, 8031, 2, 8017>>, <<8040, 8047, 1, 8032>>,
       <<8072, 8079, 1, 8064>>, <<8088, 8095, 1, 8080>>,
       <<8104, 8111, 1, 8096>>, <<8120, 8121, 1, 8112>>,
       <<8122, 8123, 1, 8048>>, <<8124, 8124, 1, 8115>>,
       <<8136, 8139, 1, 8050>>, <<8140, 8140, 1, 8131>>,
       <<8152, 8153, 1, 8144>>, <<8154, 8155, 1, 8054>>,
       <<8168, 8169, 1, 8160>>, <<8170, 8171, 1, 8058>>,
       <<8172, 8172, 1, 8165>>, <<8184, 8185, 1, 8056>>,
       <<8186, 8187, 1, 8060>>, <<8188, 8188, 1, 8179>>,
       <<8486, 8486, 1, 969>>, <<8490, 8490, 1, 107>>, <<8491, 8491, 1, 229>>,
       <<8498, 8498, 1, 8526>>, <<8544, 8559, 1, 8560>>,
       <<8579, 8579, 1, 8580>>, <<9398, 9423, 1, 9424>>,
       <<11264, 11311, 1, 11312>>, <<11360, 11360, 1, 11361>>,
       <<11362, 11362, 1, 619>>, <<11363, 11363, 1, 7549>>,
       <<11364, 11364, 1, 637>>, <<11367, 11371, 2, 11368>>,
       <<11373, 11373, 1, 593>>, <<11374, 11374, 1, 625>>,
       <<11375, 11375, 1, 592>>, <<11376, 11376, 1, 594>>,
       <<11378, 11378, 1, 11379>>, <<11381, 11381, 1, 11382>>,
       <<11390, 11391, 1, 575>>, <<11392, 11490, 2, 11393>>,
       <<11499, 11501, 2, 11500>>, <<11506, 11506, 1, 11507>>,
       <<42560, 42604, 2, 42561>>, <<42624, 42650, 2, 42625>>,
       <<42786, 42798, 2, 42787>>, <<42802, 42862, 2, 42803>>,
       <<42873, 42875, 2, 42874>>, <<42877, 42877, 1, 7545>>,
       <<42878, 42886, 2, 42879>>, <<42891, 42891, 1, 42892>>,
       <<42893, 42893, 1, 613>>, <<42896, 42898, 2, 42897>>,
       <<42902, 42920, 2, 42903>>, <<42922, 42922, 1, 614>>,
       <<42923, 42923, 1, 604>>, <<42924, 42924, 1, 609>>,
       <<42925, 42925, 1, 620>>, <<42926, 42926, 1, 618>>,
       <<42928, 42928, 1, 670>>, <<42929, 42929, 1, 647>>,
       <<42930, 42930, 1, 669>>, <<42931, 42931, 1, 43859>>,
       <<42932, 42946, 2, 42933>>, <<42948, 42948, 1, 42900>>,
       <<42949, 42949, 1, 642>>, <<42950, 42950, 1, 7566>>,
       <<42951, 42953, 2, 42952>>, <<42960, 42960, 1, 42961>>,
       <<42966, 42968, 2, 42967>>, <<42997, 42997, 1, 42998>>,
       <<65313, 65338, 1, 65345>>, <<66560, 66599, 1, 66600>>,
       <<66736, 66771, 1, 66776>>, <<66928, 66938, 1, 66967>>,
       <<66940, 66954, 1, 66979>>, <<66956, 66962, 1, 66995>>,
       <<66964, 66965, 1, 67003>>, <<68736, 68786, 1, 68800>>,
       <<71840, 71871, 1, 71872>>, <<93760, 93791, 1, 93792>>,
       <<125184, 125217, 1, 125218>> >>

RunsOf(n) ==
    {r \in 1..Len(LowerRuns) :
        /\ LowerRuns[r][1] <= n /\ n <= LowerRuns[r][2]
        /\ (n - LowerRuns[r][1]) % LowerRuns[r][3] = 0}

LowerOfRun(n, run) == Chr(run[4] + (n - run[1]))

\* the lower case of c where that is one character
SimpleLower(c, n) ==
    IF RunsOf(n) = {} THEN c ELSE LowerOfRun(n, LowerRuns[CHOOSE r \in RunsOf(n) : TRUE])

\* the lower case of a character by itself: U+0130 lowers to two characters,
\* i and the combining dot above
LowerChar(c, n) ==
    IF n = 304 THEN <<"i", "U+0307">> ELSE <<SimpleLower(c, n)>>

\* the code points first to last that the case of a word passes over
\* (Case_Ignorable): apostrophes, points, accents, marks, modifier letters
CaseIgnorableRuns ==
    << <<39, 39>>, <<46, 46>>, <<58, 58>>, <<94, 94>>, <<96, 96>>,
       <<168, 168>>, <<173, 173>>, <<175, 175>>, <<180, 180>>, <<183, 184>>,
       <<688, 879>>, <<884, 885>>, <<890, 890>>, <<900, 901>>, <<903, 903>>,
       <<1155, 1161>>, <<1369, 1369>>, <<1375, 1375>>, <<1425, 1469>>, <<1471, 1471>>,
       <<1473, 1474>>, <<1476, 1477>>, <<1479, 1479>>, <<1524, 1524>>, <<1536, 1541>>,
       <<1552, 1562>>, <<1564, 1564>>, <<1600, 1600>>, <<1611, 1631>>, <<1648, 1648>>,
       <<1750, 1757>>, <<1759, 1768>>, <<1770, 1773>>, <<1807, 1807>>, <<1809, 1809>>,
       <<1840, 1866>>, <<1958, 1968>>, <<2027, 2037>>, <<2042, 2042>>, <<2045, 2045>>,
       <<2070, 2093>>, <<2137, 2139>>, <<2184, 2184>>, <<2192, 2193>>, <<2200, 2207>>,
       <<2249, 2306>>, <<2362, 2362>>, <<2364, 2364>>, <<2369, 2376>>, <<2381, 2381>>,
       <<2385, 2391>>, <<2402, 2403>>, <<2417, 2417>>, <<2433, 2433>>, <<2492, 2492>>,
       <<2497, 2500>>, <<2509, 2509>>, <<2530, 2531>>, <<2558, 2558>>, <<2561, 2562>>,
       <<2620, 2620>>, <<2625, 2626>>, <<2631, 2632>>, <<2635, 2637>>, <<2641, 2641>>,
       <<2672, 2673>>, <<2677, 2677>>, <<2689, 2690>>, <<2748, 2748>>, <<2753, 2757>>,
       <<2759, 2760>>, <<2765, 2765>>, <<2786, 2787>>, <<2810, 2815>>, <<2817, 2817>>,
       <<2876, 2876>>, <<2879, 2879>>, <<2881, 2884>>, <<2893, 2893>>, <<2901, 2902>>,
       <<2914, 2915>>, <<2946, 2946>>, <<3008, 3008>>, <<3021, 3021>>, <<3072, 3072>>,
       <<3076, 3076>>, <<3132, 3132>>, <<3134, 3136>>, <<3142, 3144>>, <<3146, 3149>>,
       <<3157, 3158>>, <<3170, 3171>>, <<3201, 3201>>, <<3260, 3260>>, <<3263, 3263>>,
       <<3270, 3270>>, <<3276, 3277>>, <<3298, 3299>>, <<3328, 3329>>, <<3387, 3388>>,
       <<3393, 3396>>, <<3405, 3405>>, <<3426, 3427>>, <<3457, 3457>>, <<3530, 3530>>,
       <<3538, 3540>>, <<3542, 3542>>, <<3633, 3633>>, <<3636, 3642>>, <<3654, 3662>>,
       <<3761, 3761>>, <<3764, 3772>>, <<3782, 3782>>, <<3784, 3789>>, <<3864, 3865>>,
       <<3893, 3893>>, <<3895, 3895>>, <<3897, 3897>>, <<3953, 3966>>, <<3968, 3972>>,
       <<3974, 3975>>, <<3981, 3991>>, <<3993, 4028>>, <<4038, 4038>>, <<4141, 4144>>,
       <<4146, 4151>>, <<4153, 4154>>, <<4157, 4158>>, <<4184, 4185>>, <<4190, 4192>>,
       <<4209, 4212>>, <<4226, 4226>>, <<4229, 4230>>, <<4237, 4237>>, <<4253, 4253>>,
       <<4348, 4348>>, <<4957, 4959>>, <<5906, 5908>>, <<5938, 5939>>, <<5970, 5971>>,
       <<6002, 6003>>, <<6068, 6069>>, <<6071, 6077>>, <<6086, 6086>>, <<6089, 6099>>,
       <<6103, 6103>>, <<6109, 6109>>, <<6155, 6159>>, <<6211, 6211>>, <<6277, 6278>>,
       <<6313, 6313>>, <<6432, 6434>>, <<6439, 6440>>, <<6450, 6450>>, <<6457, 6459>>,
       <<6679, 6680>>, <<6683, 6683>>, <<6742, 6742>>, <<6744, 6750>>, <<6752, 6752>>,
       <<6754, 6754>>, <<6757, 6764>>, <<6771, 6780>>, <<6783, 6783>>, <<6823, 6823>>,
       <<6832, 6862>>, <<6912, 6915>>, <<6964, 6964>>, <<6966, 6970>>, <<6972, 6972>>,
       <<6978, 6978>>, <<7019, 7027>>, <<7040, 7041>>, <<7074, 7077>>, <<7080, 7081>>,
       <<7083, 7085>>, <<7142, 7142>>, <<7144, 7145>>, <<7149, 7149>>, <<7151, 7153>>,
       <<7212, 7219>>, <<7222, 7223>>, <<7288, 7293>>, <<7376, 7378>>, <<7380, 7392>>,
       <<7394, 7400>>, <<7405, 7405>>, <<7412, 7412>>, <<7416, 7417>>, <<7468, 7530>>,
       <<7544, 7544>>, <<7579, 7679>>, <<8125, 8125>>, <<8127, 8129>>, <<8141, 8143>>,
       <<8157, 8159>>, <<8173, 8175>>, <<8189, 8190>>, <<8203, 8207>>, <<8216, 8217>>,
       <<8228, 8228>>, <<8231, 8231>>, <<8234, 8238>>, <<8288, 8292>>, <<8294, 8303>>,
       <<8305, 8305>>, <<8319, 8319>>, <<8336, 8348>>, <<8400, 8432>>, <<11388, 11389>>,
       <<11503, 11505>>, <<11631, 11631>>, <<11647, 11647>>, <<11744, 11775>>, <<11823, 11823>>,
       <<12293, 12293>>, <<12330, 12333>>, <<12337, 12341>>, <<12347, 12347>>, <<12441, 12446>>,
       <<12540, 12542>>, <<40981, 40981>>, <<42232, 42237>>, <<42508, 42508>>, <<42607, 42610>>,
       <<42612, 42621>>, <<42623, 42623>>, <<42652, 42655>>, <<42736, 42737>>, <<42752, 42785>>,
       <<42864, 42864>>, <<42888, 42890>>, <<42994, 42996>>, <<43000, 43001>>, <<43010, 43010>>,
       <<43014, 43014>>, <<43019, 43019>>, <<43045, 43046>>, <<43052, 43052>>, <<43204, 43205>>,
       <<43232, 43249>>, <<43263, 43263>>, <<43302, 43309>>, <<43335, 43345>>, <<43392, 43394>>,
       <<43443, 43443>>, <<43446, 43449>>, <<43452, 43453>>, <<43471, 43471>>, <<43493, 43494>>,
       <<43561, 43566>>, <<43569, 43570>>, <<43573, 43574>>, <<43587, 43587>>, <<43596, 43596>>,
       <<43632, 43632>>, <<43644, 43644>>, <<43696, 43696>>, <<43698, 43700>>, <<43703, 43704>>,
       <<43710, 43711>>, <<43713, 43713>>, <<43741, 43741>>, <<43756, 43757>>, <<43763, 43764>>,
       <<43766, 43766>>, <<43867, 43871>>, <<43881, 43883>>, <<44005, 44005>>, <<44008, 44008>>,
       <<44013, 44013>>, <<64286, 64286>>, <<64434, 64450>>, <<65024, 65039>>, <<65043, 65043>>,
       <<65056, 65071>>, <<65106, 65106>>, <<65109, 65109>>, <<65279, 65279>>, <<65287, 65287>>,
       <<65294, 65294>>, <<65306, 65306>>, <<65342, 65342>>, <<65344, 65344>>, <<65392, 65392>>,
       <<65438, 65439>>, <<65507, 65507>>, <<65529, 65531>>, <<66045, 66045>>, <<66272, 66272>>,
       <<66422, 66426>>, <<67456, 67461>>, <<67463, 67504>>, <<67506, 67514>>, <<68097, 68099>>,
       <<68101, 68102>>, <<68108, 68111>>, <<68152, 68154>>, <<68159, 68159>>, <<68325, 68326>>,
       <<68900, 68903>>, <<69291, 69292>>, <<69446, 69456>>, <<69506, 69509>>, <<69633, 69633>>,
       <<69688, 69702>>, <<69744, 69744>>, <<69747, 69748>>, <<69759, 69761>>, <<69811, 69814>>,
       <<69817, 69818>>, <<69821, 69821>>, <<69826, 69826>>, <<69837, 69837>>, <<69888, 69890>>,
       <<69927, 69931>>, <<69933, 69940>>, <<70003, 70003>>, <<70016, 70017>>, <<70070, 70078>>,
       <<70089, 70092>>, <<70095, 70095>>, <<70191, 70193>>, <<70196, 70196>>, <<70198, 70199>>,
       <<70206, 70206>>, <<70367, 70367>>, <<70371, 70378>>, <<70400, 70401>>, <<70459, 70460>>,
       <<70464, 70464>>, <<70502, 70508>>, <<70512, 70516>>, <<70712, 70719>>, <<70722, 70724>>,
       <<70726, 70726>>, <<70750, 70750>>, <<70835, 70840>>, <<70842, 70842>>, <<70847, 70848>>,
       <<70850, 70851>>, <<71090, 71093>>, <<71100, 71101>>, <<71103, 71104>>, <<71132, 71133>>,
       <<71219, 71226>>, <<71229, 71229>>, <<71231, 71232>>, <<71339, 71339>>, <<71341, 71341>>,
       <<71344, 71349>>, <<71351, 71351>>, <<71453, 71455>>, <<71458, 71461>>, <<71463, 71467>>,
       <<71727, 71735>>, <<71737, 71738>>, <<71995, 71996>>, <<71998, 71998>>, <<72003, 72003>>,
       <<72148, 72151>>, <<72154, 72155>>, <<72160, 72160>>, <<72193, 72202>>, <<72243, 72248>>,
       <<72251, 72254>>, <<72263, 72263>>, <<72273, 72278>>, <<72281, 72283>>, <<72330, 72342>>,
       <<72344, 72345>>, <<72752, 72758>>, <<72760, 72765>>, <<72767, 72767>>, <<72850, 72871>>,
       <<72874, 72880>>, <<72882, 72883>>, <<72885, 72886>>, <<73009, 73014>>, <<73018, 73018>>,
       <<73020, 73021>>, <<73023, 73029>>, <<73031, 73031>>, <<73104, 73105>>, <<73109, 73109>>,
       <<73111, 73111>>, <<73459, 73460>>, <<78896, 78904>>, <<92912, 92916>>, <<92976, 92982>>,
       <<92992, 92995>>, <<94031, 94031>>, <<94095, 94111>>, <<94176, 94177>>, <<94179, 94180>>,
       <<110576, 110579>>, <<110581, 110587>>, <<110589, 110590>>, <<113821, 113822>>, <<113824, 113827>>,
       <<118528, 118573>>, <<118576, 118598>>, <<119143, 119145>>, <<119155, 119170>>, <<119173, 119179>>,
       <<119210, 119213>>, <<119362, 119364>>, <<121344, 121398>>, <<121403, 121452>>, <<121461, 121461>>,
       <<121476, 121476>>, <<121499, 121503>>, <<121505, 121519>>, <<122880, 122886>>, <<122888, 122904>>,
       <<122907, 122913>>, <<122915, 122916>>, <<122918, 122922>>, <<123184, 123197>>, <<123566, 123566>>,
       <<123628, 123631>>, <<125136, 125142>>, <<125252, 125259>>, <<127995, 127999>>, <<917505, 917505>>,
       <<917536, 917631>>, <<917760, 917999>> >>

\* the code points first to last of the letters that have a case (Cased), but
\* for those the case of a word passes over
CasedRuns ==
    << <<65, 90>>, <<97, 122>>, <<170, 170>>, <<181, 181>>, <<186, 186>>,
       <<192, 214>>, <<216, 246>>, <<248, 442>>, <<444, 447>>, <<452, 659>>,
       <<661, 687>>, <<880, 883>>, <<886, 887>>, <<891, 893>>, <<895, 895>>,
       <<902, 902>>, <<904, 906>>, <<908, 908>>, <<910, 929>>, <<931, 1013>>,
       <<1015, 1153>>, <<1162, 1327>>, <<1329, 1366>>, <<1376, 1416>>, <<4256, 4293>>,
       <<4295, 4295>>, <<4301, 4301>>, <<4304, 4346>>, <<4349, 4351>>, <<5024, 5109>>,
       <<5112, 5117>>, <<7296, 7304>>, <<7312, 7354>>, <<7357, 7359>>, <<7424, 7467>>,
       <<7531, 7543>>, <<7545, 7578>>, <<7680, 7957>>, <<7960, 7965>>, <<7968, 8005>>,
       <<8008, 8013>>, <<8016, 8023>>, <<8025, 8025>>, <<8027, 8027>>, <<8029, 8029>>,
       <<8031, 8061>>, <<8064, 8116>>, <<8118, 8124>>, <<8126, 8126>>, <<8130, 8132>>,
       <<8134, 8140>>, <<8144, 8147>>, <<8150, 8155>>, <<8160, 8172>>, <<8178, 8180>>,
       <<8182, 8188>>, <<8450, 8450>>, <<8455, 8455>>, <<8458, 8467>>, <<8469, 8469>>,
       <<8473, 8477>>, <<8484, 8484>>, <<8486, 8486>>, <<8488, 8488>>, <<8490, 8493>>,
       <<8495, 8500>>, <<8505, 8505>>, <<8508, 8511>>, <<8517, 8521>>, <<8526, 8526>>,
       <<8544, 8575>>, <<8579, 8580>>, <<9398, 9449>>, <<11264, 11387>>, <<11390, 11492>>,
       <<11499, 11502>>, <<11506, 11507>>, <<11520, 11557>>, <<11559, 11559>>, <<11565, 11565>>,
       <<42560, 42605>>, <<42624, 42651>>, <<42786, 42863>>, <<42865, 42887>>, <<42891, 42894>>,
       <<42896, 42954>>, <<42960, 42961>>, <<42963, 42963>>, <<42965, 42969>>, <<42997, 42998>>,
       <<43002, 43002>>, <<43824, 43866>>, <<43872, 43880>>, <<43888, 43967>>, <<64256, 64262>>,
       <<64275, 64279>>, <<65313, 65338>>, <<65345, 65370>>, <<66560, 66639>>, <<66736, 66771>>,
       <<66776, 66811>>, <<66928, 66938>>, <<66940, 66954>>, <<66956, 66962>>, <<66964, 66965>>,
       <<66967, 66977>>, <<66979, 66993>>, <<66995, 67001>>, <<67003, 67004>>, <<68736, 68786>>,
       <<68800, 68850>>, <<71840, 71903>>, <<93760, 93823>>, <<119808, 119892>>, <<119894, 119964>>,
       <<119966, 119967>>, <<119970, 119970>>, <<119973, 119974>>, <<119977, 119980>>, <<119982, 119993>>,
       <<119995, 119995>>, <<119997, 120003>>, <<120005, 120069>>, <<120071, 120074>>, <<120077, 120084>>,
       <<120086, 120092>>, <<120094, 120121>>, <<120123, 120126>>, <<120128, 120132>>, <<120134, 120134>>,
       <<120138, 120144>>, <<120146, 120485>>, <<120488, 120512>>, <<120514, 120538>>, <<120540, 120570>>,
       <<120572, 120596>>, <<120598, 120628>>, <<120630, 120654>>, <<120656, 120686>>, <<120688, 120712>>,
       <<120714, 120744>>, <<120746, 120770>>, <<120772, 120779>>, <<122624, 122633>>, <<122635, 122654>>,
       <<125184, 125251>>, <<127280, 127305>>, <<127312, 127337>>, <<127344, 127369>> >>

InRuns(n, runs) == \E r \in 1..Len(runs) : runs[r][1] <= n /\ n <= runs[r][2]

IsCaseIgnorable(c) == InRuns(Ord(c), CaseIgnorableRuns)

IsCased(c) == InRuns(Ord(c), CasedRuns)

\* the places of the characters of s that the case of a word does not pass over
Marking(s) == {j \in 1..Len(s) : ~IsCaseIgnorable(s[j])}

Greatest(S) == CHOOSE a \in S : \A b \in S : a >= b

\* the capital sigma at i ends a word: a letter with a case stands before it,
\* and none after it, the characters the case passes over left out
FinalSigma(s, i) ==
    /\ \E j \in Marking(s) : j < i
    /\ IsCased(s[Greatest({j \in Marking(s) : j < i})])
    /\ \/ ~\E j \in Marking(s) : j > i
       \/ ~IsCased(s[Least({j \in Marking(s) : j > i})])

\* the capital sigma U+03A3 lowers to the final sigma at the end of a word
handle_capital_sigma(s, i) == IF FinalSigma(s, i) THEN "U+03C2" ELSE "U+03C3"

LowerAt(s, i) ==
    IF Ord(s[i]) = 931 THEN <<handle_capital_sigma(s, i)>>
    ELSE LowerChar(s[i], Ord(s[i]))

RECURSIVE LowerFrom(_, _)
LowerFrom(s, i) == IF i > Len(s) THEN <<>> ELSE LowerAt(s, i) \o LowerFrom(s, i + 1)

Lower(s) == LowerFrom(s, 1)

\* needle in hay
Contains(hay, needle) ==
    \E i \in 0..(Len(hay) - Len(needle)) : SubSeq(hay, i + 1, i + Len(needle)) = needle

\* (query in name_kr) or (query.lower() in name_en.lower())
IsMatch(query, t) ==
    Contains(t.typName, query) \/ Contains(Lower(t.typEn), Lower(query))

Matches(query, typhoons) == SelectSeq(typhoons, LAMBDA t : IsMatch(query, t))

Capped(xs) == SubSeq(xs, 1, IF Len(xs) < ResultCap THEN Len(xs) ELSE ResultCap)

\* the read of one year
YearRead(y) == NewOp("list", <<y, 1, 1>>, <<y, 12, 31>>, 0, DefaultMaxPages, 0)

NewSrch(query, mode, today_year, end_year, status) ==
    [kind |-> "search", query |-> query, mode |-> mode, today_year |-> today_year,
     end_year |-> end_year, y |-> today_year, years |-> <<>>, gave |-> <<>>,
     status |-> status, results |-> <<>>]

Asking(s, y) == [s EXCEPT !.y = y, !.years = Append(@, y)]

\* year given: int(year), date(y, 1, 1)
OneYear(query, y, today_year) ==
    IF ~y.ok \/ y.n < 1 \/ y.n > 9999
    THEN NewSrch(query, "year", today_year, 0, "raised")
    ELSE Asking(NewSrch(query, "year", today_year, y.n, "running"), y.n)

\* year not given: range(start_year, end_year - 1, -1)
Scanning(query, today_year, end_year) ==
    IF today_year < end_year
    THEN NewSrch(query, "scan", today_year, end_year, "returned")
    ELSE Asking(NewSrch(query, "scan", today_year, end_year, "running"),
                today_year)

\* the call up to its first read
Entered(query, year, today_year, max_years_back) ==
    IF query = <<>> /\ year.t \in {"missing", "null"}
    THEN NewSrch(query, "none", today_year, 0, "message")
    ELSE IF year.t \notin {"missing", "null"}
    THEN OneYear(query, PyInt(year), today_year)
    ELSE Scanning(query, today_year, Max(today_year - max_years_back, FirstYear))

\* without the break: the scan goes on to the older years after a match
YearDone_no_break(s, typhoons, matches) ==
    IF s.mode = "year"
    THEN [s EXCEPT !.gave = Append(@, typhoons), !.status = "returned",
                   !.results = Capped(matches)]
    ELSE IF s.y - 1 >= s.end_year
    THEN Asking([s EXCEPT !.gave = Append(@, typhoons),
                          !.results = Capped(@ \o matches)], s.y - 1)
    ELSE [s EXCEPT !.gave = Append(@, typhoons), !.status = "returned",
                   !.results = Capped(@ \o matches)]

\* the loop body after the read of year s.y gave typhoons, of which matches
\* match the query
YearDone(s, typhoons, matches) ==
    IF s.mode = "year" \/ matches # <<>>
    THEN [s EXCEPT !.gave = Append(@, typhoons), !.status = "returned",
                   !.results = Capped(matches)]
    ELSE IF s.y - 1 >= s.end_year
    THEN Asking([s EXCEPT !.gave = Append(@, typhoons)], s.y - 1)
    ELSE [s EXCEPT !.gave = Append(@, typhoons), !.status = "returned"]

\* the call after one turn of the page loop of its read
AfterTurn(s, o) ==
    IF o.status = "running" THEN s
    ELSE IF o.status = "raised" THEN [s EXCEPT !.status = "raised"]
    ELSE YearDone(s, o.out, Matches(s.query, o.out))

(* Dates.  A date is <<year, month, day>>; date +/- timedelta(days) goes   *)
(* through the ordinal of the day, day 1 being 0001-01-01.  today is       *)
(* date.today(), a day of this century, so no sum leaves the years 1..9999 *)
(***************************************************************************)
DaysBeforeYear(y) ==
    (y - 1) * 365 + ((y - 1) \div 4) - ((y - 1) \div 100) + ((y - 1) \div 400)

RECURSIVE DaysBeforeMonth(_, _)
DaysBeforeMonth(y, m) ==
    IF m = 1 THEN 0 ELSE DaysBeforeMonth(y, m - 1) + DaysInMonth(y, m - 1)

\* date.toordinal()
ToOrdinal(d) == DaysBeforeYear(d[1]) + DaysBeforeMonth(d[1], d[2]) + d[3]

YearOfOrdinal(n) ==
    CHOOSE y \in (n \div 366)..((n \div 365) + 1) :
        DaysBeforeYear(y) < n /\ n <= DaysBeforeYear(y + 1)

MonthOfDay(y, r) ==
    CHOOSE m \in 1..12 :
        DaysBeforeMonth(y, m) < r /\ r <= DaysBeforeMonth(y, m) + DaysInMonth(y, m)

DayOfYear(y, m, r) == <<y, m, r - DaysBeforeMonth(y, m)>>

DateInYear(y, r) == DayOfYear(y, MonthOfDay(y, r), r)

OrdinalInYear(y, n) == DateInYear(y, n - DaysBeforeYear(y))

\* date.fromordinal(n)
FromOrdinal(n) == OrdinalInYear(YearOfOrdinal(n), n)

\* d + timedelta(days=k)
AddDays(d, k) == FromOrdinal(ToOrdinal(d) + k)

(***************************************************************************)
(* The lazily built data client.                                           *)
(***************************************************************************)
DataGoKrTyphoonClient(key) == [service_key |-> key]

\* build_client_from_env: [raised, client]; RuntimeError when the stripped
\* key is empty
build_client_from_env(key) ==
    IF Strip(key) = <<>> THEN [raised |-> TRUE, client |-> None]
    ELSE [raised |-> FALSE, client |-> DataGoKrTyphoonClient(Strip(key))]

\* _get_data_client(): what it returns or raises and what it leaves in
\* _data_client
_get_data_client(client, key) ==
    IF client = None THEN build_client_from_env(key)
    ELSE [raised |-> FALSE, client |-> client]

(***************************************************************************)
(* The tools.  call holds the locals of the running tool call and, as      *)
(* history, the windows it asked a read for and whether it asked for the   *)
(* client.  A tool ends returned, with the text of its content, or raised, *)
(* with the name of the exception.  The fixed texts of the source are      *)
(* Korean; a text is named here by what it says.  op holds the read the    *)
(* tool awaits, srch the locals of a search.                               *)
(***************************************************************************)
MaxCalls == 2

NewCall(name, args, today, nth) ==
    [kind |-> "tool", name |-> name, args |-> args, today |-> today, nth |-> nth,
     status |-> "running", exc |-> "", text |-> "", phase |-> "", typ_seq |-> 0,
     picked |-> <<>>, asked |-> <<>>, client_asked |-> FALSE, out |-> <<>>]

\* return {"content": [_text_content(text)]}
Told(c, text) == [c EXCEPT !.status = "returned", !.text = text]

\* return {"content": [_text_content(json.dumps(out))]}
ToldJson(c, out) == [c EXCEPT !.status = "returned", !.text = "json", !.out = out]

Raises(c, exc) == [c EXCEPT !.status = "raised", !.exc = exc]

\* the tool awaits a read of the window from_d..to_d
Awaits(c, phase, from_d, to_d) ==
    [c EXCEPT !.phase = phase,
              !.asked = Append(@, <<_yyyymmdd(from_d), _yyyymmdd(to_d)>>)]

WithClient(c) == [c EXCEPT !.client_asked = TRUE]

\* what int(x) raises when it raises: ValueError of a text, TypeError of None
IntError(x) == IF x.t = "str" THEN "ValueError" ELSE "TypeError"

\* a tool at its first await or at its end: its locals, _data_client, the
\* read it awaits and the locals of the search
Started(c, client, o, s) == [call |-> c, client |-> client, op |-> o, srch |-> s]

\* the failure that ended the read
ReadError(o) == o.log[Len(o.log)].err

(***************************************************************************)
(* tool_get_past_typhoon_track                                             *)
(***************************************************************************)
\* the window of the only read: ten years of 365 days back, one day forward
PastTrackRead(typ_seq, today) ==
    NewOp("track", AddDays(today, 0 - 365 * 10), AddDays(today, 1), typ_seq,
          DefaultMaxPages, 0)

PastTrackAwaits(c, typ_seq, g) ==
    IF g.raised
    THEN Started(Raises(WithClient(c), "RuntimeError"), g.client, Idle, Idle)
    ELSE Started(Awaits(WithClient([c EXCEPT !.typ_seq = typ_seq]), "track",
                        AddDays(c.today, 0 - 365 * 10), AddDays(c.today, 1)),
                 g.client, PastTrackRead(typ_seq, c.today), Idle)

PastTrackChecked(c, x, n, client, key) ==
    IF ~n.ok THEN Started(Raises(c, IntError(x)), client, Idle, Idle)
    ELSE IF n.n <= 0
    THEN Started(Told(c, "typSeq must be an integer of 1 or more"), client, Idle, Idle)
    ELSE PastTrackAwaits(c, n.n, _get_data_client(client, key))

PastTrackOf(c, x, client, key) == PastTrackChecked(c, x, PyInt(x), client, key)

\* the call up to its await
tool_get_past_typhoon_track(c, client, key) ==
    PastTrackOf(c, Get(c.args, "typSeq", JInt(0)), client, key)

\* the call after its read
PastTrackResumed(c, o) ==
    IF o.status = "raised" THEN Raises(c, ReadError(o))
    ELSE ToldJson(c, [ok |-> TRUE, typSeq |-> c.typ_seq, count |-> Len(o.out),
                      points |-> o.out])

(***************************************************************************)
(* tool_search_past_typhoons as a tool call: the check of its arguments,   *)
(* the client, then the reads of Entered.                                  *)
(***************************************************************************)
SearchAwaits(c, s, g) ==
    IF g.raised
    THEN Started(Raises(WithClient(c), "RuntimeError"), g.client, Idle, Idle)
    ELSE IF s.status = "raised"
    THEN Started(Raises(WithClient(c), "ValueError"), g.client, Idle, s)
    ELSE IF s.status = "returned"
    THEN Started(ToldJson(WithClient(c),
                          [ok |-> TRUE, query |-> s.query, results |-> s.results]),
                 g.client, Idle, s)
    ELSE Started(Awaits(WithClient(c), "year", <<s.y, 1, 1>>, <<s.y, 12, 31>>),
                 g.client, YearRead(s.y), s)

SearchChecked(c, s, client, key) ==
    IF s.status = "message"
    THEN Started(Told(c, "one of query and year is needed"), client, Idle, Idle)
    ELSE SearchAwaits(c, s, _get_data_client(client, key))

\* the call up to its first await
tool_search_past_typhoons(c, client, key, max_years_back) ==
    SearchChecked(c,
                  Entered(Strip(PyStr(Get(c.args, "query", Empty))), c.args.year,
                          c.today[1], max_years_back),
                  client, key)

\* the call after its last read
SearchResumed(c, s, o) ==
    IF s.status = "raised" THEN Raises(c, ReadError(o))
    ELSE IF s.mode = "year"
    THEN ToldJson(c, [ok |-> TRUE, year |-> s.y, results |-> s.results])
    ELSE ToldJson(c, [ok |-> TRUE, query |-> s.query, results |-> s.results])

(***************************************************************************)
(* geo_kr: normalize_region and geocode_korea.                             *)
(***************************************************************************)
\* str.replace(old, ""): the occurrences from the left, none overlapping
RECURSIVE Without(_, _)
Without(s, old) ==
    IF Len(s) < Len(old) THEN s
    ELSE IF SubSeq(s, 1, Len(old)) = old
    THEN Without(SubSeq(s, Len(old) + 1, Len(s)), old)
    ELSE <<Head(s)>> \o Without(Tail(s), old)

\* the words taken out, in this order
Suffixes ==
    << <<"U+D2B9", "U+BCC4", "U+C790", "U+CE58", "U+B3C4">>,
       <<"U+AD11", "U+C5ED", "U+C2DC">>,
       <<"U+D2B9", "U+BCC4", "U+C2DC">>,
       <<"U+B3C4">>,
       <<"U+C2DC">> >>

RECURSIVE WithoutAll(_, _, _)
WithoutAll(s, olds, i) ==
    IF i > Len(olds) THEN s ELSE WithoutAll(Without(s, olds[i]), olds, i + 1)

normalize_region(text) == WithoutAll(Strip(text), Suffixes, 1)

NoLoc == [none |-> TRUE, lat |-> FNaN, lon |-> FNaN]

LocOf(row) == [none |-> FALSE, lat |-> row.lat, lon |-> row.lon]

\* the first row of the table that holds
FirstRow(ok) ==
    IF ok = {} THEN NoLoc ELSE LocOf(KOREA_REGION_CENTERS[Least(ok)])

ByNormal(n) ==
    FirstRow({i \in 1..Len(KOREA_REGION_CENTERS) :
                 normalize_region(KOREA_REGION_CENTERS[i].k) = n})

ByKeyword(raw, ok) ==
    IF ok # {} THEN FirstRow(ok) ELSE ByNormal(normalize_region(raw))

Geocoded(raw) ==
    ByKeyword(raw, {i \in 1..Len(KOREA_REGION_CENTERS) :
                       Contains(raw, KOREA_REGION_CENTERS[i].k)})

\* geocode_korea(region) of a text
geocode_korea(region) == IF region = <<>> THEN NoLoc ELSE Geocoded(Strip(region))

(***************************************************************************)
(* tool_get_live_typhoon_summary: the client, the list of the last days,   *)
(* the track of the first typhoon of the list, the nearest approach.       *)
(***************************************************************************)
\* default_recent_range(3, 1)
default_recent_range(today, days_back, days_forward) ==
    <<AddDays(today, 0 - days_back), AddDays(today, days_forward)>>

\* str(d) of a date
IsoDate(d) ==
    Pad(NatToStr(d[1]), 4) \o <<"-">> \o Pad(NatToStr(d[2]), 2) \o <<"-">>
        \o Pad(NatToStr(d[3]), 2)

LiveListRead(r) == NewOp("list", r[1], r[2], 0, DefaultMaxPages, 0)

LiveAwaitsList(c, r, client) ==
    Started(Awaits(c, "list", r[1], r[2]), client, LiveListRead(r), Idle)

LiveEntered(c, g) ==
    IF g.raised
    THEN Started(Told(WithClient(c), "the data client could not be built: check DATA_GO_KR_SERVICE_KEY"),
                 g.client, Idle, Idle)
    ELSE LiveAwaitsList(WithClient(c), default_recent_range(c.today, 3, 1), g.client)

\* the call up to its first await
tool_get_live_typhoon_summary(c, client, key) ==
    LiveEntered(c, _get_data_client(client, key))

_pick_most_relevant_typhoon(typhoons) ==
    IF typhoons # <<>> THEN typhoons[1] ELSE None

\* a tool after a read: its locals and the read it awaits next
Resumed(c, o) == [call |-> c, op |-> o]

\* today is date.today() after the list was read
LiveAwaitsTrack(c, t, today) ==
    Resumed(Awaits([c EXCEPT !.typ_seq = t.typSeq, !.picked = t], "track",
                   AddDays(today, 0 - 7), AddDays(today, 2)),
            NewOp("track", AddDays(today, 0 - 7), AddDays(today, 2), t.typSeq,
                  DefaultMaxPages, 0))

LiveAfterList(c, o, today) ==
    IF o.status = "raised" THEN Resumed(Raises(c, ReadError(o)), o)
    ELSE IF o.out = <<>>
    THEN Resumed(Told(c, "no typhoon is found in the range asked"), o)
    ELSE LiveAwaitsTrack(c, _pick_most_relevant_typhoon(o.out), today)

\* location or ""
LocationText(location) == IF location.t = "str" THEN location.s ELSE <<>>

\* near: the summary if (loc and pts) else None, or the ValueError raised
\* out of the summary
Proximity(pts, loc) ==
    IF ~loc.none /\ pts # <<>>
    THEN _summarize_track_near_location(pts, loc.lat, loc.lon)
    ELSE None

\* the text of payload["disclaimer"]
Disclaimer ==
    <<"U+D1B5", "U+BCF4", "U+BB38", " ", "U+AE30", "U+BC18", " ", "U+C88C",
      "U+D45C", "U+B85C", " ", "U+ADFC", "U+C811", " ", "U+C2DC", "U+AC01",
      "U+C744", " ", "U+B2E8", "U+C21C", " ", "U+CD94", "U+C815", "U+D55C",
      " ", "U+AC12", "U+C785", "U+B2C8", "U+B2E4", ".">>

\* location.input is args.get("location"): null when the key is missing
LivePayload(c, pts, loc, r) ==
    [has_active_typhoon |-> TRUE,
     typhoon |-> [c.picked EXCEPT !.typSeq = c.typ_seq],
     latest_point |-> IF pts # <<>> THEN pts[Len(pts)] ELSE None,
     location |-> [input |-> Get(c.args, "location", JNull), geocoded |-> loc],
     proximity |-> Proximity(pts, loc),
     data_range_used |-> [from |-> IsoDate(r[1]), to |-> IsoDate(r[2])],
     disclaimer |-> Disclaimer]

LiveSummed(c, o, loc) ==
    IF Raised(Proximity(o.out, loc)) THEN Resumed(Raises(c, "ValueError"), o)
    ELSE Resumed(ToldJson(c, LivePayload(c, o.out, loc,
                                         default_recent_range(c.today, 3, 1))), o)

\* a location that is a number other than 0 has no strip()
LiveAfterTrack(c, o) ==
    IF o.status = "raised" THEN Resumed(Raises(c, ReadError(o)), o)
    ELSE IF c.args.location.t = "int" /\ c.args.location.n # 0
    THEN Resumed(Raises(c, "AttributeError"), o)
    ELSE LiveSummed(c, o, geocode_korea(LocationText(c.args.location)))

LiveResumed(c, o, today) ==
    IF c.phase = "list" THEN LiveAfterList(c, o, today) ELSE LiveAfterTrack(c, o)

(***************************************************************************)
(* handle_tools_call and the steps of a tool call.  arguments is the JSON  *)
(* value of params["arguments"]: an object, given by its four keys, or a   *)
(* list, which has no get().                                               *)
(***************************************************************************)
LiveName == JStr(<<"g", "e", "t", "_", "l", "i", "v", "e", "_", "t", "y", "p", "h", "o", "o", "n", "_", "s", "u", "m", "m", "a", "r", "y">>)
SearchName == JStr(<<"s", "e", "a", "r", "c", "h", "_", "p", "a", "s", "t", "_", "t", "y", "p", "h", "o", "o", "n", "s">>)
TrackName == JStr(<<"g", "e", "t", "_", "p", "a", "s", "t", "_", "t", "y", "p", "h", "o", "o", "n", "_", "t", "r", "a", "c", "k">>)

NoArgs ==
    [typSeq |-> JMissing, query |-> JMissing, year |-> JMissing,
     location |-> JMissing]

Args(typSeq, query, year, location) ==
    [typSeq |-> typSeq, query |-> query, year |-> year, location |-> location]

JDict(v) == [t |-> "dict", v |-> v]
JList == [t |-> "list", v |-> NoArgs]

\* params.get("arguments") or {}
ArgsOf(arguments) == IF arguments.t = "dict" THEN arguments.v ELSE NoArgs

ToolOf(c, truthy_list, client, key, max_years_back) ==
    IF c.name \notin {LiveName, SearchName, TrackName}
    THEN Started(Told(c, "unknown tool"), client, Idle, Idle)
    ELSE IF truthy_list THEN Started(Raises(c, "AttributeError"), client, Idle, Idle)
    ELSE IF c.name = LiveName THEN tool_get_live_typhoon_summary(c, client, key)
    ELSE IF c.name = SearchName
    THEN tool_search_past_typhoons(c, client, key, max_years_back)
    ELSE tool_get_past_typhoon_track(c, client, key)

\* the call up to its first await or its end
handle_tools_call(name, arguments, today, nth, client, key, max_years_back) ==
    ToolOf(NewCall(name, ArgsOf(arguments), today, nth), arguments.t = "list",
           client, key, max_years_back)

CallRunning == call.kind = "tool" /\ call.status = "running"

\* the tool after the read it awaited, today being date.today() then
AfterRead(c, o, s, today) ==
    IF c.phase = "year" THEN Resumed(SearchResumed(c, s, o), o)
    ELSE IF c.name = TrackName THEN Resumed(PastTrackResumed(c, o), o)
    ELSE LiveResumed(c, o, today)

(***************************************************************************)
(* JSON-RPC.  A request object is [t, jsonrpc, id, method, params] with t  *)
(* "dict", or t "other" for an element of a batch that is no object;       *)
(* params is [t, name, arguments, protocolVersion] with t "dict",          *)
(* "missing" or "list".  A response is [id, code, message, data, result],  *)
(* code 0 for a result; data names the exception.                          *)
(***************************************************************************)
MaxRequests == 2

\* MCP_PROTOCOL_VERSION is not set
DEFAULT_PROTOCOL_VERSION == <<"2", "0", "2", "4", "-", "1", "1", "-", "0", "5">>

M_initialize == <<"i", "n", "i", "t", "i", "a", "l", "i", "z", "e">>
M_tools_list == <<"t", "o", "o", "l", "s", "/", "l", "i", "s", "t">>
M_tools_call == <<"t", "o", "o", "l", "s", "/", "c", "a", "l", "l">>
M_prompts_list == <<"p", "r", "o", "m", "p", "t", "s", "/", "l", "i", "s", "t">>
M_prompts_get == <<"p", "r", "o", "m", "p", "t", "s", "/", "g", "e", "t">>
M_resources_list == <<"r", "e", "s", "o", "u", "r", "c", "e", "s", "/", "l", "i", "s", "t">>
M_ping == <<"p", "i", "n", "g">>
M_logging_setLevel == <<"l", "o", "g", "g", "i", "n", "g", "/", "s", "e", "t", "L", "e", "v", "e", "l">>

\* the methods dispatch knows
Supported ==
    {M_initialize, M_tools_list, M_tools_call, M_prompts_list, M_prompts_get,
     M_resources_list, M_ping, M_logging_setLevel}

NoParams ==
    [t |-> "missing", name |-> JMissing, arguments |-> JMissing,
     protocolVersion |-> JMissing]

Params(name, arguments) ==
    [t |-> "dict", name |-> name, arguments |-> arguments,
     protocolVersion |-> JMissing]

Obj(jsonrpc, id, method, params) ==
    [t |-> "dict", jsonrpc |-> jsonrpc, id |-> id, method |-> method,
     params |-> params]

NotAnObject == [t |-> "other", jsonrpc |-> JMissing, id |-> JMissing,
                method |-> JMissing, params |-> NoParams]

\* not x
Falsy(x) ==
    \/ x.t \in {"missing", "null"}
    \/ x.t = "str" /\ x.s = <<>>
    \/ x.t = "int" /\ x.n = 0

\* params if isinstance(params, dict) else {}
ParamsOf(params) == IF params.t = "dict" THEN params ELSE NoParams

\* str.replace(".", "/")
DotsToSlashes(m) == [i \in 1..Len(m) |-> IF m[i] = "." THEN "/" ELSE m[i]]

\* _normalize_method of a text
_normalize_method(method) == DotsToSlashes(Strip(method))

RpcResult(id, result) ==
    [id |-> id, code |-> 0, message |-> "", data |-> "", result |-> result]

RpcError(id, code, message, data) ==
    [id |-> id, code |-> code, message |-> message, data |-> data, result |-> None]

\* the exceptions that are a ValueError: json.JSONDecodeError is one
IsValueError(exc) == exc \in {"ValueError", "JSONDecodeError"}

\* the try of handle_one and of the single request around a tool call
ToolResponse(id, c) ==
    IF c.status = "returned"
    THEN RpcResult(id, [content |-> [type |-> "text", text |-> c.text, json |-> c.out]])
    ELSE IF IsValueError(c.exc)
    THEN RpcError(id, 0 - 32601, "Method not found", c.exc)
    ELSE RpcError(id, 0 - 32603, "Internal error", c.exc)

\* pv = params.get("protocolVersion") or DEFAULT_PROTOCOL_VERSION
handle_initialize(params) ==
    [protocolVersion |-> IF Falsy(params.protocolVersion) THEN JStr(DEFAULT_PROTOCOL_VERSION)
                         ELSE params.protocolVersion]

DefaultPrompt ==
    <<"t", "y", "p", "h", "o", "o", "n", "_", "a", "c", "t", "i", "o", "n", "_", "g", "u", "i", "d", "e", "_">>
        \o <<"s", "y", "s", "t", "e", "m", "_", "p", "r", "o", "m", "p", "t">>

\* name = params.get("name") or "typhoon_action_guide_system_prompt"
handle_prompts_get(params) ==
    [prompt |-> IF Falsy(params.name) THEN JStr(DefaultPrompt) ELSE params.name]

\* dispatch of a method that is no tools/call
Dispatched(id, m, params) ==
    CASE m = M_initialize -> RpcResult(id, handle_initialize(params))
      [] m = M_tools_list -> RpcResult(id, [tools |-> 3])
      [] m = M_prompts_list -> RpcResult(id, [prompts |-> 1])
      [] m = M_prompts_get -> RpcResult(id, handle_prompts_get(params))
      [] m = M_resources_list -> RpcResult(id, [resources |-> 0])
      [] m = M_ping -> RpcResult(id, [ok |-> TRUE])
      [] m = M_logging_setLevel -> RpcResult(id, [ok |-> TRUE])
      [] OTHER -> RpcError(id, 0 - 32601, "Method not found", "ValueError")

\* _ensure_session: the id of the session and whether it is new; uuid4 gives
\* an id not handed out before, here the next number
_ensure_session(session_id, sessions) ==
    IF session_id # 0 /\ session_id \in sessions
    THEN [id |-> session_id, created |-> FALSE, sessions |-> sessions]
    ELSE [id |-> Cardinality(sessions) + 1, created |-> TRUE,
          sessions |-> sessions \cup {Cardinality(sessions) + 1}]

\* the request being handled: the objects not handled yet, the one being
\* handled, the responses so far and, when it is done, the header
\* Mcp-Session-Id of the HTTP response (0: not set).  status is "handling"
\* between two objects, "awaiting" while dispatch awaits a tool, "done" at
\* the end.  As history, answered tells of each response the object it
\* answers and whether a tool raised
NewRpc(nth, single, queue, sess) ==
    [kind |-> "rpc", nth |-> nth, single |-> single, queue |-> queue,
     cur |-> NotAnObject, responses |-> <<>>, answered |-> <<>>,
     status |-> IF queue = <<>> THEN "done" ELSE "handling",
     session_id |-> sess.id, created |-> sess.created,
     header |-> IF queue = <<>> /\ sess.created THEN sess.id ELSE 0]

\* a request answered at once with an error and no header
Refused(nth, code, message) ==
    [kind |-> "rpc", nth |-> nth, single |-> TRUE, queue |-> <<>>,
     cur |-> NotAnObject, responses |-> <<RpcError(JNull, code, message, "")>>,
     answered |-> <<[obj |-> NotAnObject, raised |-> FALSE]>>,
     status |-> "done", session_id |-> 0, created |-> FALSE, header |-> 0]

Taken(r) == [r EXCEPT !.cur = Head(r.queue), !.queue = Tail(r.queue)]

\* _jsonrpc_ok sets the header of a new session, _jsonrpc_err none; a batch
\* sets it whatever its responses
HeaderOf(r, resp) ==
    IF r.created /\ (~r.single \/ resp.code = 0) THEN r.session_id ELSE 0

Reply(r, resp, raised) ==
    [r EXCEPT !.responses = Append(@, resp),
              !.answered = Append(@, [obj |-> r.cur, raised |-> raised]),
              !.status = IF r.queue = <<>> THEN "done" ELSE "handling",
              !.header = IF r.queue = <<>> THEN HeaderOf(r, resp) ELSE 0]

\* the response of the tool call that ended to the request that awaits it;
\* its id is the _id read before the call
Answered(r, c) ==
    Reply(r, ToolResponse(Get(r.cur, "id", JNull), c), c.status = "raised")

\* obj.get("jsonrpc") != "2.0" or not method
Invalid(obj) == obj.jsonrpc # JStr(<<"2", ".", "0">>) \/ Falsy(obj.method)

\* the objects of a batch: [p for p in payload if isinstance(p, dict)]
Objects(objs) == SelectSeq(objs, LAMBDA o : o.t = "dict")

(***************************************************************************)
(* History records.                                                        *)
(***************************************************************************)
\* kind "set", "get", "clear", "fetch" or "get_json"; at is the time of the
\* call and before the store it found.  Of a fetch, at and before are those
\* of its cache.get, prior is the store that the answer of the upstream
\* found (of a fetch the cache served, the store its cache.get left) and
\* after the store the fetch left; calls counts the network calls it made,
\* err is the upstream's failure when there was one, sent the payload the
\* upstream sent
NoEv == [kind |-> "none", key |-> NoKey, value |-> None, at |-> 0,
         before |-> EmptyStore, prior |-> EmptyStore, after |-> EmptyStore,
         calls |-> 0, raised |-> FALSE, err |-> "", sent |-> None]

FetchEv(kind, key, f, u, g, prior) ==
    [kind |-> kind, key |-> key, value |-> f.value, at |-> g.at,
     before |-> g.before, prior |-> prior, after |-> f.store,
     calls |-> IF f.called THEN 1 ELSE 0, raised |-> f.raised,
     err |-> IF f.called THEN u.err ELSE "",
     sent |-> IF f.called THEN u.payload ELSE None]

NeverSet == [set |-> FALSE, value |-> None, at |-> 0, ttl |-> 0]

WasSet(value, t, ttl) == [set |-> TRUE, value |-> value, at |-> t, ttl |-> ttl]

(***************************************************************************)
(* Tasks.  The server runs its coroutines on one event loop: a task runs   *)
(* alone from the moment it is called, or the upstream it awaits answers,  *)
(* to the next time it awaits the upstream or to its end.  It awaits the   *)
(* upstream in the async with block of httpx.AsyncClient, which nothing    *)
(* shared is read or written in; the answer is the end of that block.  A   *)
(* page that the cache serves is not awaited, and a request is taken from  *)
(* the moment its body is read.  A step of the model is one such run.  op, *)
(* srch, call and rpc hold the task that ran last, a task being [op, srch, *)
(* call, rpc]: the read, the search that awaits the read, the tool that    *)
(* awaits either, the request that awaits the tool, each Idle when there   *)
(* is none.  A read whose status is "running" awaits the upstream for its  *)
(* page.  waiting holds the other tasks that await.                        *)
(***************************************************************************)
Task(o, s, c, r) == [op |-> o, srch |-> s, call |-> c, rpc |-> r]

\* a run: the task and what it shares with the others
RunOf(T, st, e, ls, client) ==
    [op |-> T.op, srch |-> T.srch, call |-> T.call, rpc |-> T.rpc, store |-> st,
     ev |-> e, lastSet |-> ls, client |-> client]

\* what a run reads of its surroundings: time.time(), the cache's
\* ttl_seconds, date.today(), PAST_TY_SEARCH_MAX_YEARS_BACK,
\* DATA_GO_KR_SERVICE_KEY, and the number of the task
Around(t, dflt, today, max_years_back, key, nth) ==
    [now |-> t, ttl |-> dflt, today |-> today, max_years_back |-> max_years_back,
     key |-> key, nth |-> nth]

\* the cache key of the call the read makes
KeyOf(o) ==
    IF o.kind \in {"fetch", "get_json"} THEN o.key
    ELSE cache_key(o.from_s, o.to_s, o.page, o.num_of_rows)

\* a fetch_typhoon_info or get_json called on its own returned f
Fetched(o, f) ==
    [o EXCEPT !.status = IF f.raised THEN "raised" ELSE "returned", !.out = f.value]

\* the caller of fetch_typhoon_info after it returned f
Turn(o, f) ==
    CASE o.kind = "list" -> ListTurn(o, f)
      [] o.kind = "track" -> TrackTurn(o, f)
      [] o.kind \in {"fetch", "get_json"} -> Fetched(o, f)

Logged(o2, o, f, u) ==
    [o2 EXCEPT !.awaiting = FALSE,
               !.log = Append(@, LogEntry(o, f, u)),
               !.expect = IF f.raised \/ o.kind \notin {"list", "track"} THEN @
                          ELSE ExpectItems(o.kind, @, ItemsSent(f.value), o.typ_seq)]

Turned(o, f, u) == Logged(Turn(o, f), o, f, u)

\* of a call the cache served: the upstream was not asked
Unasked == Answer(PNull)

TheGet(t, st) == [at |-> t, before |-> st]

EvKind(o) == IF o.kind = "get_json" THEN "get_json" ELSE "fetch"

\* the read has called cache.get for its page: served, fetch_typhoon_info
\* returns and the loop turns; else the read awaits client.get
Asked(S, t, cached) ==
    IF Hit(cached)
    THEN [S EXCEPT !.op = Turned(S.op, FromCache(cached), Unasked),
                   !.ev = FetchEv(EvKind(S.op), KeyOf(S.op), FromCache(cached),
                                  Unasked, TheGet(t, S.store), cached.store)]
    ELSE [S EXCEPT !.op = [S.op EXCEPT !.awaiting = TRUE, !.get = TheGet(t, S.store)],
                   !.store = cached.store]

\* the search after the read of its year
YearEnded(S, s) ==
    [S EXCEPT !.srch = s,
              !.op = IF s.status = "running" THEN YearRead(s.y) ELSE S.op]

\* the tool after what it awaited
ToolResumed(S, r) == [S EXCEPT !.call = r.call, !.op = r.op]

\* dispatch came to handle_tools_call, which ran to its first await or its end
ToolCalled(S, r, t) ==
    [S EXCEPT !.call = t.call, !.client = t.client, !.op = t.op, !.srch = t.srch,
              !.rpc = [r EXCEPT !.status = "awaiting"]]

\* dispatch of a method that is a text
DispatchedTo(S, x, obj, r, m, params) ==
    IF m = M_tools_call
    THEN ToolCalled(S, r, handle_tools_call(params.name, params.arguments, x.today,
                                            x.nth, S.client, x.key, x.max_years_back))
    ELSE [S EXCEPT !.rpc = Reply(r, Dispatched(Get(obj, "id", JNull), m, params),
                                 FALSE)]

\* handle_one, and the same steps of the single request, up to the await of
\* dispatch; _id = obj.get("id") is None, the null of the response, of an
\* object without the key; a method that is a number has no strip()
Handled(S, x, obj, r) ==
    IF Invalid(obj)
    THEN [S EXCEPT !.rpc = Reply(r, RpcError(Get(obj, "id", JNull), 0 - 32600,
                                             "Invalid Request", ""), FALSE)]
    ELSE IF obj.method.t # "str"
    THEN [S EXCEPT !.rpc = Reply(r, RpcError(Get(obj, "id", JNull), 0 - 32603,
                                             "Internal error", "AttributeError"),
                                 FALSE)]
    ELSE DispatchedTo(S, x, obj, r, _normalize_method(obj.method.s),
                      ParamsOf(obj.params))

Searching(s) == s.kind = "search" /\ s.status = "running"

ToolRunning(c) == c.kind = "tool" /\ c.status = "running"

\* the run from S on, to the client.get the task awaits next or to its end:
\* the read asks the cache for its page; when the read has ended the search
\* goes on to its next year, the tool to its next read, the request to its
\* response and its next object
RECURSIVE Settle(_, _)
Settle(S, x) ==
    IF Running(S.op)
    THEN (IF S.op.awaiting THEN S
          ELSE Settle(Asked(S, x.now, TTLCache_get(S.store, KeyOf(S.op), x.now)), x))
    ELSE IF Searching(S.srch)
    THEN Settle(YearEnded(S, AfterTurn(S.srch, S.op)), x)
    ELSE IF ToolRunning(S.call)
    THEN Settle(ToolResumed(S, AfterRead(S.call, S.op, S.srch, x.today)), x)
    ELSE IF S.rpc.kind = "rpc" /\ S.rpc.status = "awaiting"
    THEN Settle([S EXCEPT !.rpc = Answered(S.rpc, S.call)], x)
    ELSE IF S.rpc.kind = "rpc" /\ S.rpc.status = "handling"
    THEN Settle(Handled(S, x, Head(S.rpc.queue), Taken(S.rpc)), x)
    ELSE S

\* the set() of a fetch that the upstream answered, as lastSet keeps it
SetBy(ls, key, f, u, t, dflt) ==
    IF f.called /\ ~f.raised /\ key \in DOMAIN ls
    THEN [ls EXCEPT ![key] = WasSet(f.value, t, dflt)]
    ELSE ls

\* the task T, whose client.get answered u, from the answer on
AnsweredTo(T, key, f, u, st, e, ls, client, t, dflt) ==
    [op |-> Turned(T.op, f, u), srch |-> T.srch, call |-> T.call, rpc |-> T.rpc,
     store |-> f.store,
     ev |-> FetchEv(EvKind(T.op), key, f, u, T.op.get, st),
     lastSet |-> SetBy(ls, key, f, u, t, dflt), client |-> client]

(***************************************************************************)
(* The steps.                                                              *)
(***************************************************************************)
\* the calls of fetch_typhoon_info and get_json, and of
\* tool_search_past_typhoons, made on their own in one behaviour
MaxFetches == 3
MaxSearches == 2

\* the tools not called: the credential is set, no client is built yet, no
\* session is open and no task is started
ToolsIdle ==
    /\ service_key = <<"k">>
    /\ _data_client = None
    /\ SESSIONS = {}
    /\ call = Idle
    /\ rpc = Idle
    /\ waiting = <<>>
    /\ started = 0

\* the task that ran last
Focus == Task(op, srch, call, rpc)

\* the tasks that await once another task runs: the one that ran last is
\* among them when it awaits, and is forgotten when it has ended
Parked == IF Running(op) THEN Append(waiting, Focus) ELSE waiting

WithoutAt(xs, i) == SubSeq(xs, 1, i - 1) \o SubSeq(xs, i + 1, Len(xs))

\* task 0 is the one that ran last, task i > 0 the i-th of waiting
TaskAt(i) == IF i = 0 THEN Focus ELSE waiting[i]

Others(i) == IF i = 0 THEN waiting ELSE WithoutAt(Parked, i)

Tick ==
    /\ now < MaxTime
    /\ now' = now + 1
    /\ UNCHANGED <<store, ttl_seconds, lastSet, ev, op, srch, near, tools, waiting,
                   started>>

\* the variables after a run that ended in S, the tasks w awaiting
Ran(S, w) ==
    /\ op' = S.op
    /\ srch' = S.srch
    /\ call' = S.call
    /\ rpc' = S.rpc
    /\ store' = S.store
    /\ ev' = S.ev
    /\ lastSet' = S.lastSet
    /\ _data_client' = S.client
    /\ waiting' = w
    /\ UNCHANGED <<now, ttl_seconds, near, service_key>>

\* a task is called: it runs from S
Begin(S, today, max_years_back) ==
    /\ Len(Parked) < MaxTasks
    /\ started' = started + 1
    /\ \E R \in {Settle(S, Around(now, ttl_seconds, today, max_years_back,
                                   service_key, started + 1))} :
          Ran(R, Parked)

Alone(o, s) == RunOf(Task(o, s, Idle, Idle), store, ev, lastSet, _data_client)

NoDay == <<1, 1, 1>>

\* fetch_typhoon_info called on its own
FetchCall(key) ==
    /\ started < MaxFetches
    /\ Begin(Alone(NewFetch("fetch", key), Idle), NoDay, 0)
    /\ UNCHANGED SESSIONS

\* KmaApiHubClient.get_json called on its own, the client made with the
\* cache: the same steps under its own key
GetJsonCall(key) ==
    /\ started < MaxFetches
    /\ Begin(Alone(NewFetch("get_json", key), Idle), NoDay, 0)
    /\ UNCHANGED SESSIONS

\* list_unique_typhoons_in_range or get_track_points called on its own
StartRead(kind, from_d, to_d, typ_seq, max_pages) ==
    /\ started < MaxRuns
    /\ Begin(Alone(NewOp(kind, from_d, to_d, typ_seq, max_pages, started + 1), Idle),
             NoDay, 0)
    /\ UNCHANGED SESSIONS

\* the pages allowed to a read: to the first read of a behaviour any of
\* first, to a read made after it or along with it one page
PagesAllowed(first) == IF started = 0 THEN first ELSE {1}

ToolStarted(t) ==
    RunOf(Task(t.op, t.srch, t.call, Idle), store, ev, lastSet, t.client)

\* tool_search_past_typhoons called on its own, on the first day of the
\* year today_year: the check of its arguments, _get_data_client(), which
\* builds the client when there is none and raises RuntimeError when the
\* credential is blank, and the reads
SearchStart(args, today_year, max_years_back) ==
    /\ started < MaxSearches
    /\ Begin(ToolStarted(tool_search_past_typhoons(
                             NewCall(SearchName, args, <<today_year, 1, 1>>,
                                     started + 1),
                             _data_client, service_key, max_years_back)),
             <<today_year, 1, 1>>, max_years_back)
    /\ UNCHANGED SESSIONS

\* handle_tools_call called on its own
ToolsCall(name, arguments, today, max_years_back) ==
    /\ started < MaxCalls
    /\ Begin(ToolStarted(handle_tools_call(name, arguments, today, started + 1,
                                           _data_client, service_key,
                                           max_years_back)),
             today, max_years_back)
    /\ UNCHANGED SESSIONS

Accepted(r, sessions, today, max_years_back) ==
    /\ SESSIONS' = sessions
    /\ Begin(RunOf(Task(Idle, Idle, Idle, r), store, ev, lastSet, _data_client),
             today, max_years_back)

\* _handle_jsonrpc from the body on
Parsed(payload, sess, today, max_years_back) ==
    IF payload.t \notin {"dict", "list"}
    THEN Accepted(Refused(started + 1, 0 - 32600, "Invalid Request"), sess.sessions,
                  today, max_years_back)
    ELSE Accepted(NewRpc(started + 1, payload.t = "dict", Objects(payload.objs), sess),
                  sess.sessions, today, max_years_back)

\* a POST with the body payload and the header Mcp-Session-Id (0: none)
Request(payload, session_id, today, max_years_back) ==
    /\ started < MaxRequests
    /\ IF payload.t = "unparsable"
       THEN Accepted(Refused(started + 1, 0 - 32700, "Parse error"), SESSIONS, today,
                     max_years_back)
       ELSE Parsed(payload, _ensure_session(session_id, SESSIONS), today,
                   max_years_back)

AnswerRuns(T, key, u, today, max_years_back, w) ==
    \E R \in {Settle(AnsweredTo(T, key,
                                AfterClientGet(store, key, now, ttl_seconds, u), u,
                                store, ev, lastSet, _data_client, now, ttl_seconds),
                     Around(now, ttl_seconds, today, max_years_back, service_key,
                            started))} :
        Ran(R, w)

\* the client.get that task i awaits answers u, and the task runs on
ClientGet(i, u, today, max_years_back) ==
    /\ i \in 0..Len(waiting)
    /\ i = 0 => Running(op)
    /\ AnswerRuns(TaskAt(i), KeyOf(TaskAt(i).op), u, today, max_years_back, Others(i))
    /\ UNCHANGED <<started, SESSIONS>>

\* date.today() at the answer: the day the tool of task i was called on, or
\* the day after
DayOf(i, later) ==
    IF TaskAt(i).call.kind = "tool" THEN AddDays(TaskAt(i).call.today, later)
    ELSE NoDay


(* The cache on its own: set, get and the clock.                           *)
(***************************************************************************)
Jan1 == <<2025, 1, 1>>
Dec31 == <<2025, 12, 31>>

CacheKeys == {cache_key(_yyyymmdd(Jan1), _yyyymmdd(Dec31), p, 100) : p \in 1..2}

\* a payload with no items, to have a second value to store
PEmpty == [shape |-> "list", item |-> <<>>, totalCount |-> JInt(0)]

CacheVals == {PNull, PEmpty}

TtlArgs == {TtlNone, TtlOf(0), TtlOf(1)}

InitCache ==
    /\ store = EmptyStore
    /\ now = 0
    /\ ttl_seconds \in {1, 2}
    /\ lastSet = [k \in CacheKeys |-> NeverSet]
    /\ ev = NoEv
    /\ op = Idle
    /\ srch = Idle
    /\ near = Idle
    /\ ToolsIdle

CacheSet(key, value, ttl_arg) ==
    /\ store' = TTLCache_set(store, key, value, ttl_arg, ttl_seconds, now)
    /\ lastSet' = [lastSet EXCEPT ![key] =
            WasSet(value, now, IF ttl_arg.none THEN ttl_seconds ELSE ttl_arg.n)]
    /\ ev' = [NoEv EXCEPT !.kind = "set", !.key = key, !.value = value, !.at = now]
    /\ UNCHANGED <<now, ttl_seconds, op, srch, near, tools, sched>>

GetDone(key, r) ==
    /\ store' = r.store
    /\ ev' = [NoEv EXCEPT !.kind = "get", !.key = key, !.value = r.value,
                          !.at = now, !.before = store]
    /\ UNCHANGED <<now, ttl_seconds, lastSet, op, srch, near, tools, sched>>

CacheGet(key) == GetDone(key, TTLCache_get(store, key, now))

\* TTLCache.clear(): lastSet keeps the sets made since
CacheClear ==
    /\ store' = TTLCache_clear(store)
    /\ lastSet' = [k \in DOMAIN lastSet |-> NeverSet]
    /\ ev' = [NoEv EXCEPT !.kind = "clear", !.at = now, !.before = store]
    /\ UNCHANGED <<now, ttl_seconds, op, srch, near, tools, sched>>

NextCache ==
    \/ \E k \in CacheKeys, v \in CacheVals, a \in TtlArgs : CacheSet(k, v, a)
    \/ \E k \in CacheKeys : CacheGet(k)
    \/ CacheClear
    \/ Tick

SpecCache == InitCache /\ [][NextCache]_vars

\* C3: a get returns the value of the latest set of its key when the key was
\* set and the time of the get does not exceed that set's time + ttl, and
\* None otherwise; a get that finds its entry expired leaves the key out of
\* the store, and no get touches another key's entry.
C3_GetReturnsLiveValue ==
    ev.kind = "get" =>
        LET k == ev.key
            ls == lastSet[k]
            live == ls.set /\ ev.at <= ls.at + ls.ttl
        IN  /\ live => ev.value = ls.value
            /\ ~live => ev.value = None
            /\ (ev.value # None) <=> (live /\ ls.value # None)
            /\ (k \in DOMAIN ev.before /\ ~live) => k \notin DOMAIN store
            /\ live => (k \in DOMAIN store /\ store[k] = ev.before[k])
            /\ \A k2 \in ((DOMAIN ev.before) \cup (DOMAIN store)) \ {k} :
                  /\ k2 \in DOMAIN ev.before
                  /\ k2 \in DOMAIN store
                  /\ store[k2] = ev.before[k2]

\* a get found its key's entry expired and removed it, while the other
\* key's entry stayed in the store
C3_Witness ==
    /\ ev.kind = "get"
    /\ ev.key \in DOMAIN ev.before
    /\ ev.before[ev.key].expires_at < ev.at
    /\ ev.key \notin DOMAIN store
    /\ DOMAIN store # {}

(***************************************************************************)
(* Single-page fetches against the cache, the upstream and the clock.      *)
(***************************************************************************)
\* one bulletin, as the upstream sends it
Item(typSeq, typName, typEn, typTm, typLat, typLon) ==
    [typSeq |-> typSeq, typName |-> typName, typEn |-> typEn, typTm |-> typTm,
     typLat |-> typLat, typLon |-> typLon, typDir |-> JMissing, typSp |-> JMissing,
     typPs |-> JMissing, typWs |-> JMissing, typLoc |-> JMissing, tmFc |-> JMissing,
     tmSeq |-> JMissing]

T1 == <<2017, 9, 3, 10, 0>>
T2 == <<2017, 9, 3, 16, 0>>

Bulletin(typSeq, tm) ==
    Item(typSeq, JStr(<<"A">>), JStr(<<"a">>), JStr(tm), JStr(<<"6", "0">>),
         JStr(<<"1", "2", "0">>))

B7 == Bulletin(JInt(7), Stamp(T1))

FetchAnswers ==
    {Answer(p) : p \in {PNull, PEmpty, Payload("bare", <<B7>>, JInt(1))}}
        \cup {Failure("HTTPStatusError")}

\* a key of get_json: the url and the authKey, its only parameter
ApiKeys == {apihub_key(<<"u">>, <<"a", "u", "t", "h", "K", "e", "y">>)}

InitFetch ==
    /\ store = EmptyStore
    /\ now = 0
    /\ ttl_seconds \in {1, 2}
    /\ lastSet = [k \in CacheKeys \cup ApiKeys |-> NeverSet]
    /\ ev = NoEv
    /\ op = Idle
    /\ srch = Idle
    /\ near = Idle
    /\ ToolsIdle

\* the calls of one key made together both miss and both ask the upstream
NextFetch ==
    \/ \E k \in CacheKeys : FetchCall(k)
    \/ \E k \in ApiKeys : GetJsonCall(k)
    \/ \E i \in 0..MaxTasks, u \in FetchAnswers : ClientGet(i, u, NoDay, 0)
    \/ Tick

SpecFetch == InitFetch /\ [][NextFetch]_vars

\* the key of the fetch had an entry that was not expired when it was called
HadLiveEntry ==
    /\ ev.key \in DOMAIN ev.before
    /\ ev.at <= ev.before[ev.key].expires_at

\* C4: a fetch whose key has an unexpired entry makes no network call and
\* returns the payload the last successful miss of that key stored; any
\* other fetch makes exactly one network call and, when that succeeds,
\* leaves the payload it returns stored under the key.
C4_HitServedFromCache ==
    ev.kind = "fetch" =>
        /\ HadLiveEntry =>
              /\ ev.calls = 0
              /\ ~ev.raised
              /\ ev.value = lastSet[ev.key].value
        /\ ~HadLiveEntry =>
              /\ ev.calls = 1
              /\ ev.raised <=> ev.err # ""
              /\ ~ev.raised =>
                    /\ ev.value = ev.sent
                    /\ ev.key \in DOMAIN ev.after
                    /\ ev.after[ev.key].value = ev.value

\* the same, for the entries that hold anything but the JSON null
C4_NonNullHitServedFromCache ==
    ev.kind = "fetch" =>
        /\ (HadLiveEntry /\ ev.before[ev.key].value # PNull) =>
              /\ ev.calls = 0
              /\ ~ev.raised
              /\ ev.value = lastSet[ev.key].value
        /\ ~HadLiveEntry =>
              /\ ev.calls = 1
              /\ ev.raised <=> ev.err # ""
              /\ ~ev.raised =>
                    /\ ev.value = ev.sent
                    /\ ev.key \in DOMAIN ev.after
                    /\ ev.after[ev.key].value = ev.value


(* Reads whose pages differ in their counts: empty pages, totals on each   *)
(* side of page * num_of_rows, totals that are no number, and failures.    *)
(***************************************************************************)
Txt250 == <<" ", "2", "5", "0">>
TxtAbc == <<"a", "b", "c">>

PagingTotals ==
    {JMissing, JInt(100), JInt(150), JInt(200), JInt(1000), JStr(Txt250),
     JStr(TxtAbc)}

PagingAnswers ==
    {Answer(p) :
        p \in {PNull, Payload("noitems", <<>>, JInt(150)),
               Payload("list", <<>>, JInt(150)), Payload("bare", <<B7>>, JInt(1000))}
              \cup {Payload("list", <<B7>>, tc) : tc \in PagingTotals}}
        \cup {Failure("HTTPStatusError"), Failure("ConnectError")}

InitPaging ==
    /\ store = EmptyStore
    /\ now = 0
    /\ ttl_seconds = 1
    /\ lastSet = [k \in CacheKeys |-> NeverSet]
    /\ ev = NoEv
    /\ op = Idle
    /\ srch = Idle
    /\ near = Idle
    /\ ToolsIdle

NextPaging ==
    \/ \E mp \in PagesAllowed(0..MaxPages) : StartRead("list", Jan1, Dec31, 0, mp)
    \/ \E mp \in PagesAllowed({0, MaxPages}) : StartRead("track", Jan1, Dec31, 7, mp)
    \/ \E i \in 0..MaxTasks, u \in PagingAnswers : ClientGet(i, u, NoDay, 0)

SpecPaging == InitPaging /\ [][NextPaging]_vars

IsRead == op.kind \in {"list", "track"}

\* a logged page after which the loop has to stop
StopsAfter(e, num_of_rows) ==
    e.err # "" \/ e.nitems = 0 \/ e.page * num_of_rows >= e.total

\* C1: of either read the pages fetched are 1, 2, ..., k in this order, each
\* once, with k <= max_pages; no page before the last one failed, was empty
\* or reached its response's totalCount, and the read goes on after page k
\* only when page k did none of these and k < max_pages.
C1_PagesInOrderUntilStop ==
    IsRead =>
        LET k == Len(op.log)
        IN  /\ k <= op.max_pages
            /\ \A i \in 1..k : op.log[i].page = i
            /\ \A i \in 1..(k - 1) : ~StopsAfter(op.log[i], op.num_of_rows)
            /\ op.status = "running" =>
                  /\ k < op.max_pages
                  /\ op.page = k + 1
                  /\ k > 0 => ~StopsAfter(op.log[k], op.num_of_rows)
            /\ op.status # "running" =>
                  \/ k = op.max_pages
                  \/ k > 0 /\ StopsAfter(op.log[k], op.num_of_rows)

\* a read allowed three pages returned after two, the second answering
\* totalCount = 150
C1_Witness ==
    /\ IsRead
    /\ op.status = "returned"
    /\ op.max_pages = 3
    /\ Len(op.log) = 2
    /\ op.log[2].total = 150
    /\ op.log[2].nitems > 0

(***************************************************************************)
(* Reads against a failing upstream, with the clock: entries expire        *)
(* between and during reads, so that a failed page may find an expired     *)
(* entry under its key.                                                    *)
(***************************************************************************)
AbortAnswers ==
    {Answer(Payload("list", <<B7>>, JInt(1000))), Failure("HTTPStatusError")}

NextAbort ==
    \/ StartRead("list", Jan1, Dec31, 0, MaxPages)
    \/ StartRead("track", Jan1, Dec31, 7, MaxPages)
    \/ \E i \in 0..MaxTasks, u \in AbortAnswers : ClientGet(i, u, NoDay, 0)
    \/ Tick

SpecAbort == InitPaging /\ [][NextAbort]_vars

\* C2: when the upstream fails on a page, that page is the last one the read
\* asks for (it is not asked again and no later page is), the read ends
\* raised with nothing returned, and the failed call leaves the store as
\* the failure found it: no entry is made or changed under the failed
\* page's key, nor under another.  The entry its cache.get found under the
\* key, if any, was expired.
C2_FailureAbortsRead ==
    IsRead =>
        \A i \in 1..Len(op.log) :
            op.log[i].err # "" =>
                /\ i = Len(op.log)
                /\ op.status = "raised"
                /\ op.out = <<>>
                /\ ev.kind = "fetch"
                /\ ev.key = cache_key(op.from_s, op.to_s, i, op.num_of_rows)
                /\ ev.calls = 1
                /\ ev.raised
                /\ ev.after = ev.prior
                /\ ev.key \in DOMAIN ev.before => ev.before[ev.key].expires_at < ev.at

\* the second page of a read failed after the first page had given items,
\* and the failed page's key had an entry, expired, from an earlier read
C2_Witness ==
    /\ IsRead
    /\ op.status = "raised"
    /\ Len(op.log) = 2
    /\ op.log[2].err = "HTTPStatusError"
    /\ op.log[1].nitems > 0
    /\ ev.key \in DOMAIN ev.before
    /\ DOMAIN store # {}

(***************************************************************************)
(* List reads over bulletins of two typhoons whose times are valid, not    *)
(* valid, missing, or the least time a datetime holds.                     *)
(***************************************************************************)
TxtX == <<"x">>

\* the pages: bulletins of typhoon 1 and of typhoon "2", one with a blank
\* typSeq and one that lacks typTm
ListPages ==
    {<<Bulletin(JInt(1), tm)>> : tm \in {Stamp(T1), Stamp(T2), TxtX}}
        \cup {<<Bulletin(JStr(<<"2">>), Stamp(DtMin))>>,
              <<Bulletin(JStr(<<" ">>), Stamp(T2)), Bulletin(JStr(<<"2">>), Stamp(T1))>>,
              <<Item(JInt(1), JStr(<<"A">>), JStr(<<"a">>), JMissing, JNull, JNull),
                Bulletin(JInt(1), Stamp(T2)), Bulletin(JInt(1), Stamp(T1))>>}

ListAnswers == {Answer(Payload("list", p, JInt(1000))) : p \in ListPages}

NextList ==
    \/ \E mp \in PagesAllowed(1..MaxPages) : StartRead("list", Jan1, Dec31, 0, mp)
    \/ \E i \in 0..MaxTasks, u \in ListAnswers : ClientGet(i, u, NoDay, 0)

SpecList == InitPaging /\ [][NextList]_vars

IsList == op.kind = "list"

ListReturned == IsList /\ op.status = "returned"

\* the summary's lastTypTm reads as a time
HasLast(x) == Strptime(x.lastTypTm) # NoDt

\* C5: the summaries returned are in descending order of the time lastTypTm
\* reads as, every summary whose lastTypTm reads as no time comes after all
\* those whose lastTypTm reads as one, and the first summary has the latest
\* time of all.
C5_SortedDescInvalidLast ==
    ListReturned =>
        \A i, j \in 1..Len(op.out) :
            i < j =>
                /\ HasLast(op.out[j]) => HasLast(op.out[i])
                /\ (HasLast(op.out[i]) /\ HasLast(op.out[j])) =>
                      ~DtLess(Strptime(op.out[i].lastTypTm),
                              Strptime(op.out[j].lastTypTm))

\* what the sort gives: descending order of lastDt with the least datetime
\* standing for no time, summaries of equal key in the order of first sight
C5_SortedDescByKey ==
    ListReturned =>
        /\ op.out = Summaries(SortByLastDtDesc(op.seen))
        /\ \A i, j \in 1..Len(op.out) :
              i < j => ~DtLess(OrMin(Strptime(op.out[i].lastTypTm)),
                               OrMin(Strptime(op.out[j].lastTypTm)))
        /\ \A i, j \in 1..Len(op.out) :
              (i < j /\ HasLast(op.out[j])
                     /\ DtLess(DtMin, Strptime(op.out[j].lastTypTm)))
                  => HasLast(op.out[i])

\* C6: of every summary, merged over the pages read so far, firstDt and
\* lastDt are the least and the greatest of the valid times of its items,
\* hence firstDt <= lastDt, and both are None when no item had a valid time;
\* firstTypTm and lastTypTm are texts of these times, or the first item's
\* text when there is none; the summaries returned carry these texts.
C6_MergedBoundsOrdered ==
    IsList =>
        /\ Len(op.seen) = Len(op.expect)
        /\ \A i \in 1..Len(op.seen) :
              /\ op.seen[i].key = op.expect[i].key
              /\ Strptime(op.seen[i].firstTypTm) = op.seen[i].firstDt
              /\ Strptime(op.seen[i].lastTypTm) = op.seen[i].lastDt
              /\ op.expect[i].dts = {} =>
                    /\ op.seen[i].firstDt = NoDt
                    /\ op.seen[i].lastDt = NoDt
                    /\ op.seen[i].firstTypTm = op.expect[i].firstText
                    /\ op.seen[i].lastTypTm = op.expect[i].firstText
              /\ op.expect[i].dts # {} =>
                    /\ op.seen[i].firstDt \in op.expect[i].dts
                    /\ op.seen[i].lastDt \in op.expect[i].dts
                    /\ \A d \in op.expect[i].dts :
                          /\ ~DtLess(d, op.seen[i].firstDt)
                          /\ ~DtLess(op.seen[i].lastDt, d)
                    /\ ~DtLess(op.seen[i].lastDt, op.seen[i].firstDt)
        /\ op.status = "returned" =>
              /\ Len(op.out) = Len(op.seen)
              /\ \A x \in {op.seen[i] : i \in 1..Len(op.seen)} :
                    \E j \in 1..Len(op.out) : op.out[j] = Summary(x)

\* a read of three pages returned a summary whose first item had the later
\* time, a later item the earlier one, and one more item no valid time
C6_Witness ==
    /\ ListReturned
    /\ Len(op.log) = 3
    /\ \E i \in 1..Len(op.seen) :
          /\ op.expect[i].firstText = Stamp(T2)
          /\ op.expect[i].bad = 1
          /\ op.seen[i].firstDt = T1
          /\ op.seen[i].lastDt = T2
          /\ \E j \in 1..Len(op.out) :
                /\ op.out[j].firstTypTm = Stamp(T1)
                /\ op.out[j].lastTypTm = Stamp(T2)

(***************************************************************************)
(* Track reads of typhoon 7 over bulletins whose number, coordinates and   *)
(* time may each be unreadable.                                            *)
(***************************************************************************)
Txt60 == <<"6", "0">>
Txt120 == <<"1", "2", "0">>

TxtSea == <<"S", "e", "a">>

\* a longitude under the least double: float() reads it as 0.0
TxtTiny == <<"1", "e", "-", "4", "0", "0">>

\* a bulletin that tells the place and the speed
Sighting(typSeq, tm, typLat, typLon) ==
    [Item(typSeq, JStr(<<"A">>), JStr(<<"a">>), JStr(tm), typLat, typLon)
        EXCEPT !.typLoc = JStr(TxtSea), !.typSp = JInt(20)]

\* a bulletin of typhoon 7 whose typLat is no number
BadLat == Sighting(JInt(7), Stamp(T1), JStr(TxtX), JStr(Txt120))

TrackPages ==
    {<<Bulletin(JInt(7), tm)>> : tm \in {Stamp(T1), Stamp(T2), TxtX}}
        \cup {<<Bulletin(JInt(8), Stamp(T1)),
                Bulletin(JStr(<<" ", "7", " ">>), Stamp(T2)),
                Sighting(JInt(7), Stamp(T1), JStr(<<"n", "a", "n">>), JStr(TxtTiny))>>,
              <<Bulletin(JInt(7), Stamp(T2)), BadLat, Bulletin(JInt(7), Stamp(T1))>>,
              <<Bulletin(JInt(7), Stamp(DtMin)),
                Sighting(JInt(7), Stamp(T2), JStr(Txt60), JNull),
                Sighting(JInt(7), Stamp(T2), JInt(0), JStr(<<"-", "6", "0">>))>>}

TrackAnswers == {Answer(Payload("list", p, JInt(1000))) : p \in TrackPages}

NextTrack ==
    \/ \E mp \in PagesAllowed(1..MaxPages) : StartRead("track", Jan1, Dec31, 7, mp)
    \/ \E i \in 0..MaxTasks, u \in TrackAnswers : ClientGet(i, u, NoDay, 0)

SpecTrack == InitPaging /\ [][NextTrack]_vars

IsTrack == op.kind = "track"

TrackReturned == IsTrack /\ op.status = "returned"

\* how many times x occurs in the sequence xs
Count(xs, x) == Cardinality({i \in 1..Len(xs) : xs[i] = x})

\* C7: the points collected are, in the order of arrival, exactly the items
\* of the wanted number whose typLat and typLon both read as numbers, over
\* all pages read so far; the points returned are these, each as often as
\* it arrived, so that no item with an unreadable coordinate is among them
\* and none of the others is lost with it.
C7_UnreadableCoordinateDropped ==
    IsTrack =>
        /\ Points(op.pts) = op.expect
        /\ op.status = "returned" =>
              /\ Len(op.out) = Len(op.expect)
              /\ \A i \in 1..Len(op.expect) :
                    Count(op.out, op.expect[i]) = Count(op.expect, op.expect[i])

\* the third page of a read held a bulletin with an unreadable typLat between
\* two sound ones: these two were returned with the points of the pages before
C7_Witness ==
    /\ TrackReturned
    /\ Len(op.log) = 3
    /\ ev.sent.item = <<Bulletin(JInt(7), Stamp(T2)), BadLat, Bulletin(JInt(7), Stamp(T1))>>
    /\ Len(op.out) = 4

\* the point's typTm reads as a time
HasTime(p) == Strptime(p.typTm) # NoDt

\* C8: the points returned are in ascending order of the time typTm reads
\* as, and every point whose typTm reads as no time comes before every point
\* whose typTm reads as one.
C8_AscendingInvalidFirst ==
    TrackReturned =>
        \A i, j \in 1..Len(op.out) :
            i < j =>
                /\ HasTime(op.out[i]) => HasTime(op.out[j])
                /\ (HasTime(op.out[i]) /\ HasTime(op.out[j])) =>
                      ~DtLess(Strptime(op.out[j].typTm), Strptime(op.out[i].typTm))

\* what the sort gives: ascending order of dt with the least datetime
\* standing for no time, points of equal key in the order of arrival
C8_AscendingByKey ==
    TrackReturned =>
        /\ op.out = Points(SortByDtAsc(op.pts))
        /\ \A i, j \in 1..Len(op.out) :
              i < j => ~DtLess(OrMin(Strptime(op.out[j].typTm)),
                               OrMin(Strptime(op.out[i].typTm)))
        /\ \A i, j \in 1..Len(op.out) :
              (i < j /\ HasTime(op.out[i])
                     /\ DtLess(DtMin, Strptime(op.out[i].typTm)))
                  => HasTime(op.out[j])

(***************************************************************************)
(* The nearest approach of point lists of every order to three targets.    *)
(* The points are what get_track_points returns: a time text and two       *)
(* floats, NaN among them since float() reads "nan".                       *)
(***************************************************************************)
MaxPts == 3

T3 == <<2017, 12, 31, 20, 0>>

\* a point of get_track_points, made of a bulletin that tells the place loc
NearPoint(tm, lat, lon, loc) ==
    Point(NewPoint([Bulletin(JInt(7), tm) EXCEPT !.typLoc = loc], tm, lat, lon))

Seoul == <<"U+C11C", "U+C6B8">>
Busan == <<"U+BD80", "U+C0B0">>
Jeju == <<"U+C81C", "U+C8FC">>

\* the centre of Seoul
SeoulLat == KOREA_REGION_CENTERS[1].lat
SeoulLon == KOREA_REGION_CENTERS[1].lon

\* points over the sea around Korea and over Seoul, one with the latitude
\* NaN and one with an infinite latitude, both of which float() reads
NearPoints ==
    {NearPoint(Stamp(T1), FNum(c[1]), FNum(c[2]), JStr(NatToStr(c[2]))) :
        c \in {<<35, 130>>, <<30, 125>>, <<40, 130>>, <<20, 135>>}}
        \cup {NearPoint(Stamp(T1), SeoulLat, SeoulLon, JStr(TxtSea)),
              NearPoint(Stamp(T1), FNaN, FNum(125), JStr(TxtSea)),
              NearPoint(Stamp(T1), FInf(1), FNum(130), JNull),
              NearPoint(TxtX, FNum(35), FNum(130), JMissing),
              NearPoint(Stamp(T3), FNum(30), FNum(125), JNull),
              NearPoint(Stamp(DtMin), SeoulLat, SeoulLon, JInt(3))}

NearLists == UNION {[1..n -> NearPoints] : n \in 0..MaxPts}

\* the places geocode_korea gives of the names of three regions
NearTargets == {geocode_korea(region) : region \in {Seoul, Busan, Jeju}}

InitNear ==
    /\ store = EmptyStore
    /\ now = 0
    /\ ttl_seconds = 1
    /\ lastSet = [k \in CacheKeys |-> NeverSet]
    /\ ev = NoEv
    /\ op = Idle
    /\ srch = Idle
    /\ near \in {[kind |-> "called", points |-> ps, loc_lat |-> t.lat,
                  loc_lon |-> t.lon] : ps \in NearLists, t \in NearTargets}
    /\ ToolsIdle

\* the call returned result or raised; best is what the loop ended with
Summed(n, result, best) ==
    [kind |-> IF Raised(result) THEN "raised" ELSE "done", points |-> n.points,
     loc_lat |-> n.loc_lat, loc_lon |-> n.loc_lon, result |-> result,
     best |-> best]

Summarize ==
    /\ near.kind = "called"
    /\ near' = Summed(near,
                      _summarize_track_near_location(near.points, near.loc_lat,
                                                     near.loc_lon),
                      Scan(near.points, 1, NoBest, near.loc_lat, near.loc_lon))
    /\ UNCHANGED <<store, now, ttl_seconds, lastSet, ev, op, srch, tools, sched>>

NextNear == Summarize

SpecNear == InitNear /\ [][NextNear]_vars

\* the distance of the i-th point of the list to the target
DistAt(i) ==
    haversine_km(near.loc_lat, near.loc_lon, near.points[i].lat, near.points[i].lon)

\* a <= b of two floats: False when either is NaN
FLeq(a, b) == ~a.nan /\ ~b.nan /\ ~FLess(b, a)

\* the closest point reported is the b-th point of the list, its distance is
\* <= that of every other point that has one (a NaN is no distance), and no
\* point before it is as close
ClosestIs(b) ==
    /\ b \in 1..Len(near.points)
    /\ ~near.result.closest.none
    /\ near.result.closest.typhoon_lat = near.points[b].lat
    /\ near.result.closest.typhoon_lon = near.points[b].lon
    /\ near.result.closest.typLoc = near.points[b].typLoc
    /\ near.result.closest.time = _fmt_dt14_kst(near.points[b].typTm)
    /\ near.result.closest.distance_km = Round1(DistAt(b))
    /\ \A j \in (1..Len(near.points)) \ {b} :
          ~DistAt(j).nan => FLeq(DistAt(b), DistAt(j))
    /\ \A j \in 1..(b - 1) : ~DistAt(j).nan => FLess(DistAt(b), DistAt(j))

\* C9: over a list with points the summary reports one closest point, whose
\* distance is <= that of every point of the list and which is the first of
\* the list at that distance; over the empty list it reports no closest
\* point and no impact window.
C9_ClosestIsNearest ==
    near.kind = "done" =>
        /\ near.points = <<>> =>
              (near.result.closest.none /\ near.result.impact_window.none)
        /\ near.points # <<>> => ClosestIs(near.best.at)

\* no coordinate of the list is NaN
AllFinite ==
    \A i \in 1..Len(near.points) : ~near.points[i].lat.nan /\ ~near.points[i].lon.nan

\* the same over the lists whose coordinates are all numbers
C9_ClosestIsNearestOfFinite ==
    (near.kind = "done" /\ AllFinite) =>
        /\ near.points = <<>> =>
              (near.result.closest.none /\ near.result.impact_window.none)
        /\ near.points # <<>> => ClosestIs(near.best.at)

\* two points at the least distance, the first of them reported
C9_FiniteWitness ==
    /\ near.kind = "done"
    /\ AllFinite
    /\ Len(near.points) = 3
    /\ near.best.at = 2
    /\ DistAt(3) = DistAt(2)
    /\ near.points[3] # near.points[2]
    /\ ~near.result.impact_window.none

(***************************************************************************)
(* Searches by query, by year and by neither, with the clock's year at and *)
(* away from the lower bound of the scan, with the credential and without. *)
(***************************************************************************)
TxtAB == <<"A", "B">>

SearchArgs ==
    {[query |-> JStr(TxtAB), year |-> JMissing],
     [query |-> JStr(<<" ", "b", " ">>), year |-> JMissing],
     [query |-> JMissing, year |-> JMissing],
     [query |-> JStr(TxtAB), year |-> JInt(2025)],
     [query |-> JMissing, year |-> JStr(TxtX)]}

TodayYears == {1951, 2026}

Named(typSeq, typName, typEn) ==
    Item(JInt(typSeq), JStr(typName), JStr(typEn), JStr(Stamp(T1)), JStr(Txt60),
         JStr(Txt120))

\* query AB matches Ab by typEn alone and AB by typName alone; b matches Ab;
\* the capital sigma of AB's typEn ends a word
Ab == Named(1, <<"A", "b">>, <<"a", "b">>)
Cd == Named(2, <<"C", "d">>, <<"c", "d">>)
AB == Named(3, TxtAB, <<"z", "U+03A3">>)

SearchAnswers ==
    {Answer(p) :
        p \in {PEmpty, Payload("list", <<Ab>>, JInt(1)), Payload("list", <<AB>>, JInt(1)),
               Payload("list", <<Cd, Ab>>, JInt(2)), Payload("list", <<Cd>>, JInt(150))}}
        \cup {Failure("HTTPStatusError")}

\* the search made after the first of a behaviour or along with it: a scan
\* of one year
LaterArgs == [query |-> JStr(TxtAB), year |-> JMissing]

NextSearch ==
    \/ \E a \in SearchArgs, ty \in TodayYears, b \in (0 - 1)..MaxYearsBack :
          started = 0 /\ SearchStart(a, ty, b)
    \/ started > 0 /\ SearchStart(LaterArgs, 2026, 0)
    \/ \E i \in 0..MaxTasks, u \in SearchAnswers : ClientGet(i, u, NoDay, 0)

\* with the credential set and with none: "" when the variable is not set
InitSearch ==
    /\ store = EmptyStore
    /\ now = 0
    /\ ttl_seconds = 1
    /\ lastSet = [k \in CacheKeys |-> NeverSet]
    /\ ev = NoEv
    /\ op = Idle
    /\ srch = Idle
    /\ near = Idle
    /\ service_key \in {<<>>, <<"k">>}
    /\ _data_client = None
    /\ SESSIONS = {}
    /\ call = Idle
    /\ rpc = Idle
    /\ waiting = <<>>
    /\ started = 0

SpecSearch == InitSearch /\ [][NextSearch]_vars

IsScan == srch.kind = "search" /\ srch.mode = "scan"

\* some typhoon of the list matches the query
AnyMatch(typhoons) ==
    \E i \in 1..Len(typhoons) : IsMatch(srch.query, typhoons[i])

\* C10: a search by query alone asks for the years today.year,
\* today.year - 1, ... in this order, none below the lower bound; every year
\* it went on from gave no match; it returns after the first year that gave
\* one, with matches of that year only, and with an empty list when it has
\* asked for every year down to the lower bound and none gave a match.
C10_ScanStopsAtFirstMatch ==
    IsScan =>
        /\ \A i \in 1..Len(srch.years) :
              /\ srch.years[i] = srch.today_year - (i - 1)
              /\ srch.years[i] >= srch.end_year
              /\ srch.years[i] >= FirstYear
        /\ Len(srch.gave) <= Len(srch.years)
        /\ \A i \in 1..Len(srch.gave) :
              i < Len(srch.years) => ~AnyMatch(srch.gave[i])
        /\ srch.status = "running" => Len(srch.gave) = Len(srch.years) - 1
        /\ srch.status = "returned" =>
              /\ Len(srch.gave) = Len(srch.years)
              /\ (srch.years # <<>> /\ AnyMatch(srch.gave[Len(srch.gave)])) =>
                    /\ srch.results # <<>>
                    /\ \A j \in 1..Len(srch.results) :
                          /\ IsMatch(srch.query, srch.results[j])
                          /\ \E k \in 1..Len(srch.gave[Len(srch.gave)]) :
                                srch.gave[Len(srch.gave)][k] = srch.results[j]
              /\ (srch.years # <<>> /\ ~AnyMatch(srch.gave[Len(srch.gave)])) =>
                    /\ srch.results = <<>>
                    /\ srch.years[Len(srch.years)] = srch.end_year
              /\ srch.years = <<>> =>
                    /\ srch.results = <<>>
                    /\ srch.today_year < srch.end_year

\* a scan from 2026 went past a year that gave a typhoon with no match and
\* returned the match of 2024, the third year it asked for
C10_Witness ==
    /\ IsScan
    /\ srch.status = "returned"
    /\ srch.years = <<2026, 2025, 2024>>
    /\ Len(srch.results) = 1
    /\ \E i \in 1..2 : srch.gave[i] # <<>>

(***************************************************************************)
(* The three tools called with and without the credential, with typSeq     *)
(* values that are and are not positive integers, and reads that give      *)
(* points, none, and a failure.  The bulletin of the points tells a place  *)
(* over the sea east of Korea.                                             *)
(***************************************************************************)
\* "" when the variable is not set
ServiceKeys == {<<>>, <<" ">>, <<"k">>}

Todays == {<<2026, 10, 29>>, <<2026, 1, 1>>}

ToolNames == {LiveName, SearchName, TrackName}

ToolArgs ==
    {NoArgs,
     Args(JInt(7), JMissing, JMissing, JStr(Seoul)),
     Args(JStr(<<" ", "7">>), JStr(<<"a">>), JMissing, JStr(TxtX)),
     Args(JInt(0), JMissing, JInt(2025), JMissing),
     Args(JInt(0 - 1), JMissing, JStr(TxtX), JMissing),
     Args(JStr(TxtAbc), JStr(TxtX), JMissing, JMissing),
     Args(JNull, JMissing, JInt(0), JInt(5))}

E7 == Sighting(JInt(7), Stamp(T1), JStr(<<"3", "5">>), JStr(<<"1", "3", "0">>))

ToolAnswers ==
    {Answer(PEmpty), Answer(Payload("list", <<E7>>, JInt(1))),
     Failure("HTTPStatusError")}

InitTools ==
    /\ store = EmptyStore
    /\ now = 0
    /\ ttl_seconds = 1
    /\ lastSet = [k \in CacheKeys |-> NeverSet]
    /\ ev = NoEv
    /\ op = Idle
    /\ srch = Idle
    /\ near = Idle
    /\ service_key \in ServiceKeys
    /\ _data_client = None
    /\ SESSIONS = {}
    /\ call = Idle
    /\ rpc = Idle
    /\ waiting = <<>>
    /\ started = 0

\* the arguments of the calls made after the first of a behaviour or along
\* with it
LaterToolArgs == {NoArgs, Args(JInt(7), JStr(<<"a">>), JMissing, JStr(Seoul))}

\* date.today() is an input of each run of a task: at the answer of the
\* upstream it is the day of the call or the day after
NextTools ==
    \/ \E n \in ToolNames, a \in ToolArgs, d \in Todays :
          started = 0 /\ ToolsCall(n, JDict(a), d, 1)
    \/ \E n \in ToolNames, a \in LaterToolArgs :
          started > 0 /\ ToolsCall(n, JDict(a), <<2026, 10, 29>>, 1)
    \/ \E i \in 0..Len(waiting), u \in ToolAnswers, later \in {0, 1} :
          ClientGet(i, u, DayOf(i, later), 1)

SpecTools == InitTools /\ [][NextTools]_vars

CallEnded == call.kind = "tool" /\ call.status # "running"

\* the window is the whole of one calendar year
IsWholeYear(w) ==
    /\ Len(w[1]) > 4
    /\ Len(w[1]) = Len(w[2])
    /\ SubSeq(w[1], Len(w[1]) - 3, Len(w[1])) = <<"0", "1", "0", "1">>
    /\ SubSeq(w[2], Len(w[2]) - 3, Len(w[2])) = <<"1", "2", "3", "1">>
    /\ SubSeq(w[1], 1, Len(w[1]) - 4) = SubSeq(w[2], 1, Len(w[2]) - 4)

\* C11: a past track call with no date range that got no point from its
\* first window has gone on to ask for whole calendar years before it
\* returned: it does not return empty-handed after the first window alone.
C11_EmptyWindowFallsBackToYears ==
    (/\ CallEnded
     /\ call.name = TrackName
     /\ call.status = "returned"
     /\ call.text = "json"
     /\ call.out.count = 0)
        => \E i \in 2..Len(call.asked) : IsWholeYear(call.asked[i])

\* the value reads as an integer of 1 or more
PositiveInteger(x) == PyInt(x).ok /\ PyInt(x).n >= 1

\* the arguments of the call are the invalid input of its tool
InvalidInput ==
    \/ call.name = TrackName /\ ~PositiveInteger(Get(call.args, "typSeq", JInt(0)))
    \/ /\ call.name = SearchName
       /\ Strip(PyStr(Get(call.args, "query", Empty))) = <<>>
       /\ call.args.year.t \in {"missing", "null"}

\* C12: a past track call whose typSeq is no positive integer, and a search
\* with neither query nor year, end returned with a message, not raised,
\* and have asked neither for the client nor for a read.
C12_InvalidInputRejectedWithMessage ==
    (CallEnded /\ InvalidInput) =>
        /\ call.status = "returned"
        /\ call.text \in {"typSeq must be an integer of 1 or more",
                          "one of query and year is needed"}
        /\ ~call.client_asked
        /\ call.asked = <<>>

\* C13: with the credential absent, a call of any of the three tools ends
\* returned with a message, not raised, and asks for no read, the first
\* call and the calls after it alike.
C13_AbsentCredentialGivesMessage ==
    (CallEnded /\ Strip(service_key) = <<>>) =>
        /\ call.status = "returned"
        /\ call.text # "json"
        /\ call.asked = <<>>

(***************************************************************************)
(* Lists over bulletins whose typSeq is the number 7, the texts "07" and   *)
(* "abc", a blank and the number 8.                                        *)
(***************************************************************************)
Txt07 == <<"0", "7">>

SeqPages ==
    {<<Bulletin(JInt(7), Stamp(T1))>>,
     <<Bulletin(JStr(Txt07), Stamp(T2))>>,
     <<Bulletin(JStr(TxtAbc), Stamp(T1))>>,
     <<Bulletin(JStr(<<" ">>), Stamp(T1)), Bulletin(JInt(8), Stamp(T2))>>,
     <<Bulletin(JInt(8), Stamp(T1)), Bulletin(JStr(<<" ", "8">>), Stamp(T2))>>}

SeqAnswers == {Answer(Payload("list", p, JInt(1000))) : p \in SeqPages}

NextSeq ==
    \/ \E mp \in PagesAllowed(1..MaxPages) : StartRead("list", Jan1, Dec31, 0, mp)
    \/ \E i \in 0..MaxTasks, u \in SeqAnswers : ClientGet(i, u, NoDay, 0)

SpecSeq == InitPaging /\ [][NextSeq]_vars

\* the sequence numbers the items fetched carry: the values of the keys
\* (the stripped text of each typSeq, blanks left out) that read as an
\* integer
KeysSent == {op.expect[i].key : i \in 1..Len(op.expect)}

NumbersSent == {IntOfText(k).n : k \in {x \in KeysSent : IntOfText(x).ok}}

\* C14: the list returned holds one summary for each integer sequence number
\* the items carry and no other: no two summaries have the same typSeq, and
\* every summary's typSeq is the number of a numeric typSeq among the items.
C14_OneSummaryPerSequenceNumber ==
    ListReturned =>
        /\ \A i, j \in 1..Len(op.out) : i # j => op.out[i].typSeq # op.out[j].typSeq
        /\ {op.out[i].typSeq : i \in 1..Len(op.out)} = NumbersSent
        /\ Len(op.out) = Cardinality(NumbersSent)

(***************************************************************************)
(* Requests, single and in batches, with methods dispatch knows and does   *)
(* not know, spelt with dots and blanks, tools that return, raise and      *)
(* await reads, objects without an id, and bodies that are no request.     *)
(***************************************************************************)
V2 == JStr(<<"2", ".", "0">>)

ToolCall(id, name, args) ==
    Obj(V2, JInt(id), JStr(M_tools_call), Params(name, JDict(args)))

Method(id, method) == Obj(V2, JInt(id), method, NoParams)

RpcObjects ==
    {ToolCall(1, TrackName, Args(JStr(TxtAbc), JMissing, JMissing, JMissing)),
     ToolCall(2, TrackName, Args(JInt(7), JMissing, JMissing, JMissing)),
     ToolCall(3, TrackName, Args(JNull, JMissing, JMissing, JMissing)),
     ToolCall(4, SearchName, Args(JMissing, JStr(<<"a">>), JMissing, JMissing)),
     ToolCall(5, SearchName, Args(JMissing, JMissing, JStr(TxtX), JMissing)),
     ToolCall(6, LiveName, NoArgs),
     ToolCall(7, JStr(TxtX), NoArgs),
     Obj(V2, JInt(8), JStr(<<"t", "o", "o", "l", "s", ".", "c", "a", "l", "l">>),
         Params(TrackName, JDict(Args(JInt(0), JMissing, JMissing, JMissing)))),
     Obj(V2, JInt(9), JStr(M_tools_call), Params(TrackName, JList)),
     Method(10, JStr(<<" ", "t", "o", "o", "l", "s", ".", "l", "i", "s", "t", " ">>)),
     Method(11, JStr(M_ping)),
     Method(12, JStr(TxtX)),
     Method(13, JInt(5)),
     Obj(V2, JMissing, JStr(M_tools_list), NoParams),
     Obj(V2, JMissing, JStr(M_tools_call),
         Params(TrackName, JDict(Args(JInt(7), JMissing, JMissing, JMissing)))),
     Method(14, JStr(<<>>)),
     Obj(JStr(<<"1", ".", "0">>), JInt(15), JStr(M_ping), NoParams),
     Obj(V2, JNull, JStr(M_initialize), [NoParams EXCEPT !.t = "list"]),
     Obj(V2, JInt(17), JStr(M_prompts_get), Params(JStr(TxtX), JMissing))}

Body(t, objs) == [t |-> t, objs |-> objs]

RpcBodies ==
    {Body("dict", <<o>>) : o \in RpcObjects}
        \cup {Body("list", <<>>), Body("number", <<>>), Body("unparsable", <<>>),
              Body("list", <<Method(11, JStr(M_ping)), NotAnObject,
                            Method(12, JStr(TxtX)),
                            ToolCall(1, TrackName,
                                     Args(JStr(TxtAbc), JMissing, JMissing, JMissing))>>),
              Body("list", <<ToolCall(2, TrackName,
                                     Args(JInt(7), JMissing, JMissing, JMissing)),
                            ToolCall(4, SearchName,
                                     Args(JMissing, JStr(<<"a">>), JMissing, JMissing))>>)}

\* the requests made after the first of a behaviour or along with it
LaterBodies ==
    {Body("dict", <<Method(11, JStr(M_ping))>>),
     Body("dict", <<ToolCall(2, TrackName,
                             Args(JInt(7), JMissing, JMissing, JMissing))>>)}

NextRpc ==
    \/ \E b \in RpcBodies, sid \in {0, 1, 9} :
          started = 0 /\ Request(b, sid, <<2026, 10, 29>>, 1)
    \/ \E b \in LaterBodies, sid \in {0, 1} :
          started > 0 /\ Request(b, sid, <<2026, 10, 29>>, 1)
    \/ \E i \in 0..Len(waiting), u \in ToolAnswers, later \in {0, 1} :
          ClientGet(i, u, DayOf(i, later), 1)

SpecRpc == InitTools /\ [][NextRpc]_vars

\* a request object with the version "2.0" and a method that is a text
WellFormed(obj) == obj.t = "dict" /\ ~Invalid(obj) /\ obj.method.t = "str"

MethodOf(obj) == _normalize_method(obj.method.s)

\* the responses of the request that answer a well-formed object
ToWellFormed ==
    IF rpc.kind = "rpc"
    THEN {i \in 1..Len(rpc.responses) : WellFormed(rpc.answered[i].obj)}
    ELSE {}

\* C15: the response to a well-formed request, single or of a batch, has the
\* code -32601 exactly when its normalized method is none of the supported
\* methods; a tools/call never has it, and a tool that raised is answered
\* with -32603.
C15_MethodNotFoundIffUnsupported ==
    \A i \in ToWellFormed :
        /\ rpc.responses[i].code = 0 - 32601
              <=> MethodOf(rpc.answered[i].obj) \notin Supported
        /\ rpc.answered[i].raised => rpc.responses[i].code = 0 - 32603
====
